---- MODULE Spec2Model ----
(***************************************************************************)
(* Exam seat allocation: the three allocate_seats variants of the          *)
(* repository (University_Exam_Seat_Allocater.py, Exam1_Seat_allocator.py  *)
(* and pdf_reports/University_Exam_Seat_Allocater (copy).py) as one state  *)
(* machine.  A run is: validate_inputs, then the variant's grouping /      *)
(* selection / distribution, then one step per hall of the placement loop, *)
(* then the final check for unallocated students.                          *)
(*                                                                         *)
(* Strings are sequences of ASCII codes ("9" is <<57>>, "10" is <<49,48>>),*)
(* so that Python's string comparison and the digit extraction of the      *)
(* registration sort key are computed, not assumed.  Course codes are      *)
(* numbers whose order stands for the string order of the codes.           *)
(* A hall_code is the hall's position in the halls list (codes are unique).*)
(***************************************************************************)
EXTENDS Integers, Sequences, FiniteSets, TLC

VARIABLES
    impl,                  \* which source file's allocate_seats is running
    students,              \* self.students
    halls,                 \* self.halls
    pc,                    \* position inside allocate_seats
    error,                 \* the ValueError raised, "none" while none was
    allocations,           \* self.allocations
    hall_seats,            \* self.hall_seats
    hall_courses,          \* self.hall_courses
    halls_to_use,          \* halls_to_use / selected_halls
    students_per_hall,     \* students_per_hall
    first_half,            \* deque first_half          (University)
    second_half,           \* deque second_half         (University)
    courses_by_size,       \* courses_by_size / courses_sorted
    remaining,             \* remaining_courses / remaining: course -> queue
    unallocated_students,  \* second-pass work list     (Exam1)
    hall_idx,              \* index of the hall the placement loop is at
    frame,                 \* locals of the hall iteration that is running
    prev,                  \* what an earlier instance on the same input ended with
    runs,                  \* exam_gui.py: the handler activations, one per click
    allocators             \* exam_gui.py: the instances _make_allocator built

\* the fields and locals of one allocator instance
allocVars == <<impl, students, halls, pc, error, allocations, hall_seats,
               hall_courses, halls_to_use, students_per_hall, first_half,
               second_half, courses_by_size, remaining, unallocated_students,
               hall_idx, frame>>

vars == <<allocVars, prev, runs, allocators>>

-----------------------------------------------------------------------------
(* Bounds of the model *)

MaxHalls == 2

MaxStudents == 4

\* course codes of the inputs
Courses == { 1, 2, 3 }

\* None of Python: no registration number is the empty string
None == << >>

\* Registration numbers handed out to the students of an input, by position:
\* "9", "10", "2", "A1", "B", "1", "07", "A", then "19", "20", ...
RegPool ==
    << <<57>>, <<49, 48>>, <<50>>, <<65, 49>>, <<66>>, <<49>>, <<48, 55>>, <<65>> >>

RegOf(i) ==
    IF i <= Len(RegPool) THEN RegPool[i]
    ELSE << 48 + ((i + 10) \div 10), 48 + ((i + 10) % 10) >>

\* no hall iteration is running: hall_students, usable, current_courses,
\* future_courses and idx of the packing loops
NoFrame ==
    [hall_students |-> << >>, usable |-> 0, current_courses |-> << >>,
     future_courses |-> << >>, idx |-> 0]

\* no earlier instance has run
NoRun == [ended |-> "never"]

-----------------------------------------------------------------------------
(* Helpers *)

Min2(a, b) == IF a <= b THEN a ELSE b

SeqToSet(s) == { s[i] : i \in 1..Len(s) }

RECURSIVE SumSeq(_)
SumSeq(s) == IF s = << >> THEN 0 ELSE Head(s) + SumSeq(Tail(s))

\* h['rows'] * h['cols']
GridCap(h) == h.rows * h.cols

\* sum(h['rows'] * h['cols'] for h in hs)
TotalSeats(hs) == SumSeq([i \in 1..Len(hs) |-> GridCap(hs[i])])

\* the empty grids of __init__
EmptyGrid(h) == [r \in 0..(h.rows - 1) |-> [c \in 0..(h.cols - 1) |-> None]]

\* cells of one grid that hold a student
Occupied(g) == { <<r, c>> \in { <<r, c>> : r \in DOMAIN g, c \in DOMAIN g[0] } : g[r][c] # None }

-----------------------------------------------------------------------------
(* validate_inputs *)

\* validate_inputs without its per-hall capacity check
validate_inputs_NoHallCheck(hs, ss) ==
    IF Len(ss) > TotalSeats(hs) THEN "not_enough_seats" ELSE "none"

\* validate_inputs refusing an exact fit (>= for >)
validate_inputs_NoExactFit(hs, ss) ==
    IF \E i \in 1..Len(hs) : hs[i].total_capacity > GridCap(hs[i])
    THEN "hall_capacity"
    ELSE IF Len(ss) >= TotalSeats(hs) THEN "not_enough_seats" ELSE "none"

\* University_Exam_Seat_Allocater.py validate_inputs: the error it raises,
\* "none" when it returns
validate_inputs(hs, ss) ==
    IF \E i \in 1..Len(hs) : hs[i].total_capacity > GridCap(hs[i])
    THEN "hall_capacity"
    ELSE IF Len(ss) > TotalSeats(hs) THEN "not_enough_seats" ELSE "none"

\* both ValueErrors of validate_inputs are the capacity error
CapacityError == { "hall_capacity", "not_enough_seats" }

-----------------------------------------------------------------------------
(* University_Exam_Seat_Allocater.py: allocate_seats *)

\* the 25-seat block of the hall selection
BlockSize == 25

\* required_capacity = ((total_students + 24) // 25) * 25
RequiredCapacity(n) == ((n + (BlockSize - 1)) \div BlockSize) * BlockSize

\* sorted(..., reverse=True) is stable: x goes behind every element whose
\* key is not smaller
RECURSIVE InsertByCapDesc(_, _)
InsertByCapDesc(x, s) ==
    IF s = << >> THEN << x >>
    ELSE IF GridCap(Head(s)) >= GridCap(x)
         THEN << Head(s) >> \o InsertByCapDesc(x, Tail(s))
         ELSE << x >> \o s

\* the halls left in their declared order
SortByCapDesc_Unsorted(hs) == hs

RECURSIVE SortByCapDesc(_)
SortByCapDesc(hs) ==
    IF hs = << >> THEN << >>
    ELSE InsertByCapDesc(hs[Len(hs)], SortByCapDesc(SubSeq(hs, 1, Len(hs) - 1)))

\* the selection loop: add halls until cap_acc >= required_capacity
RECURSIVE SelectLoop(_, _, _, _)
SelectLoop(hs, cap_acc, selected_codes, required) ==
    IF hs = << >> THEN selected_codes
    ELSE LET acc == cap_acc + GridCap(Head(hs))
             sel == selected_codes \cup { Head(hs).hall_code }
         IN  IF acc >= required THEN sel
             ELSE SelectLoop(Tail(hs), acc, sel, required)

SelectedCodes(hs, n) == SelectLoop(SortByCapDesc(hs), 0, {}, RequiredCapacity(n))

\* the selected halls listed in the iteration order of the set selected_codes,
\* an order that is not the same in every process
HallsToUse_SetOrder(hs, n) ==
    LET inOrder == SelectSeq(hs, LAMBDA h : h.hall_code \in SelectedCodes(hs, n))
    IN  IF prev = NoRun THEN inOrder
        ELSE [i \in 1..Len(inOrder) |-> inOrder[Len(inOrder) + 1 - i]]

\* every hall kept, selected or not
HallsToUse_All(hs, n) == hs

\* halls_to_use = [h for h in self.halls if h['hall_code'] in selected_codes]
HallsToUse(hs, n) == SelectSeq(hs, LAMBDA h : h.hall_code \in SelectedCodes(hs, n))

\* the test of line 133 against the rounded-up requirement
SelectionFails_Rounded(htu, n) == TotalSeats(htu) < RequiredCapacity(n)

\* sum(h['rows'] * h['cols'] for h in halls_to_use) < total_students (line 133)
SelectionFails(htu, n) == TotalSeats(htu) < n

\* (cap, total_capacity, total_students) with total_capacity < 39 for which the
\* IEEE-754 double (cap / total_capacity) * total_students lies just below the
\* integer cap * total_students / total_capacity, so that int() yields one less
FloatShortfall == { <<15, 22, 22>>, <<13, 23, 23>>, <<15, 26, 26>> }

\* int((cap / total_capacity) * total_students) if total_capacity > 0 else 0
ShareCount(cap, total, n) ==
    IF total > 0
    THEN ((cap * n) \div total) - (IF <<cap, total, n>> \in FloatShortfall THEN 1 ELSE 0)
    ELSE 0

\* the distributor without its remainder pass
StudentsPerHall_NoRemainder(htu, n) ==
    [code \in { htu[i].hall_code : i \in 1..Len(htu) } |->
        LET i == CHOOSE j \in 1..Len(htu) : htu[j].hall_code = code
        IN  ShareCount(GridCap(htu[i]), TotalSeats(htu), n)]

\* the floor shares, then the remainder pass: the first rem halls of
\* halls_to_use get one more (one pass over the halls, no more)
StudentsPerHall(htu, n) ==
    LET total == TotalSeats(htu)
        count == [i \in 1..Len(htu) |-> ShareCount(GridCap(htu[i]), total, n)]
        rem   == n - SumSeq(count)
    IN  [code \in { htu[i].hall_code : i \in 1..Len(htu) } |->
            LET i == CHOOSE j \in 1..Len(htu) : htu[j].hall_code = code
            IN  count[i] + (IF i <= rem THEN 1 ELSE 0)]

\* the condition of the alternating while-loop (line 174)
AlternateGoesOn(hall_students, fh, sh, usable) ==
    Len(hall_students) < usable /\ (fh # << >> \/ sh # << >>)

\* one iteration of the loop without its take from second_half
AlternateBody_FirstHalfOnly(hall_students, fh, sh, usable) ==
    IF fh # << >> /\ Len(hall_students) < usable
    THEN << Append(hall_students, Head(fh)), Tail(fh), sh >>
    ELSE << hall_students, fh, sh >>

\* one iteration that takes from second_half without looking at usable
AlternateBody_PairAlways(hall_students, fh, sh, usable) ==
    LET takeF == fh # << >> /\ Len(hall_students) < usable
        hs1 == IF takeF THEN Append(hall_students, Head(fh)) ELSE hall_students
        fh1 == IF takeF THEN Tail(fh) ELSE fh
        takeS == sh # << >>
        hs2 == IF takeS THEN Append(hs1, Head(sh)) ELSE hs1
        sh1 == IF takeS THEN Tail(sh) ELSE sh
    IN  << hs2, fh1, sh1 >>

\* one iteration that takes from second_half before first_half
AlternateBody_SecondFirst(hall_students, fh, sh, usable) ==
    LET takeS == sh # << >> /\ Len(hall_students) < usable
        hs1 == IF takeS THEN Append(hall_students, Head(sh)) ELSE hall_students
        sh1 == IF takeS THEN Tail(sh) ELSE sh
        takeF == fh # << >> /\ Len(hs1) < usable
        hs2 == IF takeF THEN Append(hs1, Head(fh)) ELSE hs1
        fh1 == IF takeF THEN Tail(fh) ELSE fh
    IN  << hs2, fh1, sh1 >>

\* one iteration of the alternating while-loop (lines 175-178):
\* <<hall_students, first_half, second_half>> after it
AlternateBody(hall_students, fh, sh, usable) ==
    LET takeF == fh # << >> /\ Len(hall_students) < usable
        hs1 == IF takeF THEN Append(hall_students, Head(fh)) ELSE hall_students
        fh1 == IF takeF THEN Tail(fh) ELSE fh
        takeS == sh # << >> /\ Len(hs1) < usable
        hs2 == IF takeS THEN Append(hs1, Head(sh)) ELSE hs1
        sh1 == IF takeS THEN Tail(sh) ELSE sh
    IN  << hs2, fh1, sh1 >>

\* the alternating while-loop: <<hall_students, first_half, second_half>>
RECURSIVE PackAlternate(_, _, _, _)
PackAlternate(hall_students, fh, sh, usable) ==
    IF AlternateGoesOn(hall_students, fh, sh, usable)
    THEN LET b == AlternateBody(hall_students, fh, sh, usable)
         IN  PackAlternate(b[1], b[2], b[3], usable)
    ELSE << hall_students, fh, sh >>

\* every row visited left to right
SerpentineCells_RowMajor(r, rows, cols) ==
    [k \in 1..((rows - r) * cols) |-> << r + ((k - 1) \div cols), (k - 1) % cols >>]

\* the cells in the order the S-pattern loops visit them: row r left to right
\* when r is even, right to left when r is odd
RECURSIVE SerpentineCells(_, _, _)
SerpentineCells(r, rows, cols) ==
    IF r >= rows THEN << >>
    ELSE [k \in 1..cols |-> IF r % 2 = 0 THEN <<r, k - 1>> ELSE <<r, cols - k>>]
         \o SerpentineCells(r + 1, rows, cols)

\* a placement that passes over the cells that hold a student already
PlaceOnCells_FreeCells(grid, cells, studs) ==
    LET free == SelectSeq(cells, LAMBDA rc : grid[rc[1]][rc[2]] = << >>)
        m == Min2(Len(free), Len(studs))
    IN  [r \in DOMAIN grid |-> [c \in DOMAIN grid[r] |->
            IF \E i \in 1..m : free[i] = <<r, c>>
            THEN studs[CHOOSE i \in 1..m : free[i] = <<r, c>>].reg_no
            ELSE grid[r][c]]]

\* the grid after the placement loops: the idx-th student on the idx-th cell
PlaceOnCells(grid, cells, studs) ==
    LET m == Min2(Len(cells), Len(studs))
    IN  [r \in DOMAIN grid |-> [c \in DOMAIN grid[r] |->
            IF \E i \in 1..m : cells[i] = <<r, c>>
            THEN studs[CHOOSE i \in 1..m : cells[i] = <<r, c>>].reg_no
            ELSE grid[r][c]]]

\* allocations recording the 0-based loop indices as row and col
AllocateOnCells_ZeroBased(allocs, hall, cells, studs) ==
    LET m == Min2(Len(cells), Len(studs))
        regs == { studs[i].reg_no : i \in 1..m }
    IN  [reg \in regs \cup DOMAIN allocs |->
            IF reg \in regs
            THEN LET i == CHOOSE j \in 1..m : studs[j].reg_no = reg
                 IN  [hall_code |-> hall.hall_code, row |-> cells[i][1],
                      col |-> cells[i][2], course_code |-> studs[i].course_code]
            ELSE allocs[reg]]

\* self.allocations after the placement loops
AllocateOnCells(allocs, hall, cells, studs) ==
    LET m == Min2(Len(cells), Len(studs))
        regs == { studs[i].reg_no : i \in 1..m }
    IN  [reg \in regs \cup DOMAIN allocs |->
            IF reg \in regs
            THEN LET i == CHOOSE j \in 1..m : studs[j].reg_no = reg
                 IN  [hall_code |-> hall.hall_code, row |-> cells[i][1] + 1,
                      col |-> cells[i][2] + 1, course_code |-> studs[i].course_code]
            ELSE allocs[reg]]

\* the course codes of the first student only
CourseCodesOf_FirstOnly(studs) ==
    IF studs = << >> THEN {} ELSE { studs[1].course_code }

\* set(s['course_code'] for s in hall_students) (line 185)
CourseCodesOf(studs) == { studs[i].course_code : i \in 1..Len(studs) }

\* one iteration of "for hall in halls_to_use" (lines 159-209): the values of
\* <<hall_courses, hall_seats, allocations, first_half, second_half>> after it
UnivHallStep(hall, hc, seats, allocs, fh, sh, sph) ==
    LET hall_code == hall.hall_code
        target    == IF hall_code \in DOMAIN sph THEN sph[hall_code] ELSE 0
        usable    == Min2(Min2(GridCap(hall), hall.total_capacity), target)
        packed    == PackAlternate(<< >>, fh, sh, usable)
        cells     == SerpentineCells(0, hall.rows, hall.cols)
    IN  IF target <= 0 THEN << hc, seats, allocs, fh, sh >>
        ELSE IF packed[1] = << >> THEN << hc, seats, allocs, packed[2], packed[3] >>
        ELSE << [hc EXCEPT ![hall_code] = CourseCodesOf(packed[1])],
                [seats EXCEPT ![hall_code] = PlaceOnCells(@, cells, packed[1])],
                AllocateOnCells(allocs, hall, cells, packed[1]),
                packed[2], packed[3] >>

\* self.validate_inputs() at the head of allocate_seats (line 108)
UnivValidate ==
    /\ impl = "Univ" /\ pc = "start"
    /\ LET e == validate_inputs(halls, students)
       IN  IF e # "none" THEN pc' = "error" /\ error' = e
           ELSE pc' = "validated" /\ error' = error
    /\ UNCHANGED <<runs, allocators, prev, frame, impl, students, halls, allocations, hall_seats, hall_courses,
                   halls_to_use, students_per_hall, first_half, second_half,
                   courses_by_size, remaining, unallocated_students, hall_idx>>

\* hall selection in 25-seat blocks and its capacity check (lines 111-134)
UnivSelect ==
    /\ impl = "Univ" /\ pc = "validated"
    /\ LET htu == HallsToUse(halls, Len(students))
       IN  IF SelectionFails(htu, Len(students))
           THEN pc' = "error" /\ error' = "selection" /\ halls_to_use' = halls_to_use
           ELSE pc' = "selected" /\ error' = error /\ halls_to_use' = htu
    /\ UNCHANGED <<runs, allocators, prev, frame, impl, students, halls, allocations, hall_seats, hall_courses,
                   students_per_hall, first_half, second_half,
                   courses_by_size, remaining, unallocated_students, hall_idx>>

\* the split into halves and the proportional distribution (lines 136-156)
UnivDistribute ==
    /\ impl = "Univ" /\ pc = "selected"
    /\ LET total_students == Len(students)
           half == (total_students + 1) \div 2
       IN  /\ first_half' = SubSeq(students, 1, half)
           /\ second_half' = SubSeq(students, half + 1, total_students)
           /\ students_per_hall' = StudentsPerHall(halls_to_use, total_students)
    /\ hall_idx' = 1
    /\ pc' = "halls"
    /\ UNCHANGED <<runs, allocators, prev, frame, impl, students, halls, error, allocations, hall_seats,
                   hall_courses, halls_to_use, courses_by_size, remaining,
                   unallocated_students>>

\* one hall of the placement loop (lines 159-209)
UnivAllocateHall ==
    /\ impl = "Univ" /\ pc = "halls" /\ hall_idx <= Len(halls_to_use)
    /\ LET step == UnivHallStep(halls_to_use[hall_idx], hall_courses, hall_seats,
                                allocations, first_half, second_half,
                                students_per_hall)
       IN  /\ hall_courses' = step[1]
           /\ hall_seats' = step[2]
           /\ allocations' = step[3]
           /\ first_half' = step[4]
           /\ second_half' = step[5]
    /\ hall_idx' = hall_idx + 1
    /\ UNCHANGED <<runs, allocators, prev, frame, impl, students, halls, pc, error, halls_to_use,
                   students_per_hall, courses_by_size, remaining,
                   unallocated_students>>

\* the check for unallocated students after the loop (lines 211-215)
UnivCheck ==
    /\ impl = "Univ" /\ pc = "halls" /\ hall_idx > Len(halls_to_use)
    /\ IF first_half \o second_half # << >>
       THEN pc' = "error" /\ error' = "unallocated"
       ELSE pc' = "done" /\ error' = error
    /\ UNCHANGED <<runs, allocators, prev, frame, impl, students, halls, allocations, hall_seats, hall_courses,
                   halls_to_use, students_per_hall, first_half, second_half,
                   courses_by_size, remaining, unallocated_students, hall_idx>>

NextUniv == UnivValidate \/ UnivSelect \/ UnivDistribute \/ UnivAllocateHall \/ UnivCheck

\* The same loop over the halls with every iteration of the packing loop a
\* step of its own: the head of one hall iteration (lines 160-171)
UnivEnterHall ==
    /\ impl = "Univ" /\ pc = "halls" /\ hall_idx <= Len(halls_to_use)
    /\ LET hall   == halls_to_use[hall_idx]
           target == IF hall.hall_code \in DOMAIN students_per_hall
                     THEN students_per_hall[hall.hall_code] ELSE 0
       IN  IF target <= 0
           THEN pc' = pc /\ hall_idx' = hall_idx + 1 /\ frame' = frame
           ELSE /\ pc' = "packing" /\ hall_idx' = hall_idx
                /\ frame' = [NoFrame EXCEPT !.usable =
                       Min2(Min2(GridCap(hall), hall.total_capacity), target)]
    /\ UNCHANGED <<runs, allocators, prev, impl, students, halls, error, allocations,
                   hall_seats, hall_courses, halls_to_use, students_per_hall,
                   first_half, second_half, courses_by_size, remaining,
                   unallocated_students>>

\* the test of the while-loop and, when it holds, one iteration (lines 174-178)
UnivPackIter ==
    /\ impl = "Univ" /\ pc = "packing"
    /\ IF AlternateGoesOn(frame.hall_students, first_half, second_half, frame.usable)
       THEN LET b == AlternateBody(frame.hall_students, first_half, second_half,
                                   frame.usable)
            IN  /\ frame' = [frame EXCEPT !.hall_students = b[1]]
                /\ first_half' = b[2]
                /\ second_half' = b[3]
                /\ pc' = pc
       ELSE pc' = "placing" /\ UNCHANGED <<frame, first_half, second_half>>
    /\ UNCHANGED <<runs, allocators, prev, impl, students, halls, error, allocations,
                   hall_seats, hall_courses, halls_to_use, students_per_hall,
                   courses_by_size, remaining, unallocated_students, hall_idx>>

\* the rest of the hall iteration: hall_courses and the S-pattern (lines 181-209)
UnivPlaceHall ==
    /\ impl = "Univ" /\ pc = "placing"
    /\ LET hall  == halls_to_use[hall_idx]
           cells == SerpentineCells(0, hall.rows, hall.cols)
       IN  IF frame.hall_students = << >>
           THEN UNCHANGED <<hall_courses, hall_seats, allocations>>
           ELSE /\ hall_courses' = [hall_courses EXCEPT ![hall.hall_code] =
                                        CourseCodesOf(frame.hall_students)]
                /\ hall_seats' = [hall_seats EXCEPT ![hall.hall_code] =
                                      PlaceOnCells(@, cells, frame.hall_students)]
                /\ allocations' = AllocateOnCells(allocations, hall, cells,
                                                  frame.hall_students)
    /\ hall_idx' = hall_idx + 1
    /\ pc' = "halls"
    /\ UNCHANGED <<runs, allocators, prev, frame, impl, students, halls, error,
                   halls_to_use, students_per_hall, first_half, second_half,
                   courses_by_size, remaining, unallocated_students>>

StepsUniv ==
    \/ UnivValidate \/ UnivSelect \/ UnivDistribute
    \/ UnivEnterHall \/ UnivPackIter \/ UnivPlaceHall \/ UnivCheck

-----------------------------------------------------------------------------
(* Sorting as Python does it: stable, on keys that are tuples.  A key is a     *)
(* sequence of numbers compared lexicographically, a string component being  *)
(* spliced in as its character codes.                                        *)

RECURSIVE SeqLess(_, _)
SeqLess(a, b) ==
    IF b = << >> THEN FALSE
    ELSE IF a = << >> THEN TRUE
    ELSE IF Head(a) # Head(b) THEN Head(a) < Head(b)
    ELSE SeqLess(Tail(a), Tail(b))

\* p = <<key, element>> goes behind every pair whose key is not greater
RECURSIVE InsertPair(_, _)
InsertPair(p, s) ==
    IF s = << >> THEN << p >>
    ELSE IF SeqLess(p[1], Head(s)[1]) THEN << p >> \o s
    ELSE << Head(s) >> \o InsertPair(p, Tail(s))

\* insertion sort from the left; the sorted prefix s is computed once
RECURSIVE SortPairs(_)
SortPairs(ps) ==
    IF ps = << >> THEN << >>
    ELSE CHOOSE r \in { InsertPair(ps[Len(ps)], s) :
                           s \in { SortPairs(SubSeq(ps, 1, Len(ps) - 1)) } } : TRUE

\* the elements of the <<key, element>> pairs, stably sorted by key
SortedElements(ps) ==
    CHOOSE e \in { [i \in 1..Len(r) |-> r[i][2]] : r \in { SortPairs(ps) } } : TRUE

IsDigit(ch) == ch \in 48..57

\* int(digits) of a string of digits
RECURSIVE IntOfDigits(_)
IntOfDigits(ds) ==
    IF ds = << >> THEN 0
    ELSE IntOfDigits(SubSeq(ds, 1, Len(ds) - 1)) * 10 + (ds[Len(ds)] - 48)

\* re.sub(r"\D", "", reg)
DigitsOf(reg) == SelectSeq(reg, IsDigit)

-----------------------------------------------------------------------------
(* Exam1_Seat_allocator.py: allocate_seats *)

\* validate_inputs with the seat count checked inside the hall loop, so that
\* an empty hall list is never checked
Exam1_validate_inputs_InLoop(hs, ss) ==
    IF \E i \in 1..Len(hs) : hs[i].total_capacity > GridCap(hs[i])
    THEN "hall_capacity"
    ELSE IF Len(hs) > 0 /\ Len(ss) > TotalSeats(hs) THEN "not_enough_seats" ELSE "none"

\* Exam1_Seat_allocator.py validate_inputs (lines 68-79)
Exam1_validate_inputs(hs, ss) ==
    IF \E i \in 1..Len(hs) : hs[i].total_capacity > GridCap(hs[i])
    THEN "hall_capacity"
    ELSE IF Len(ss) > TotalSeats(hs) THEN "not_enough_seats" ELSE "none"

\* sorted(self.students, key=lambda x: (x['course_code'], x['reg_no']))
SortedByCourseReg(ss) ==
    SortedElements([i \in 1..Len(ss) |-> << <<ss[i].course_code>> \o ss[i].reg_no, ss[i] >>])

\* the keys of students_by_course in insertion order
RECURSIVE CourseKeys(_, _)
CourseKeys(sorted, seen) ==
    IF sorted = << >> THEN seen
    ELSE IF Head(sorted).course_code \in SeqToSet(seen)
         THEN CourseKeys(Tail(sorted), seen)
         ELSE CourseKeys(Tail(sorted), Append(seen, Head(sorted).course_code))

\* students_by_course[c]
StudentsOfCourse(sorted, c) == SelectSeq(sorted, LAMBDA st : st.course_code = c)

\* sorted(students_by_course.keys(), key=len(...), reverse=True)
CoursesBySize(ss) ==
    LET sorted == SortedByCourseReg(ss)
        keys   == CourseKeys(sorted, << >>)
    IN  SortedElements([i \in 1..Len(keys) |->
            << << 0 - Len(StudentsOfCourse(sorted, keys[i])) >>, keys[i] >>])

\* remaining_courses = {c: list(students_by_course[c]) for c in courses_by_size}
RemainingCourses(ss) ==
    LET sorted == SortedByCourseReg(ss)
    IN  [c \in { ss[i].course_code : i \in 1..Len(ss) } |-> StudentsOfCourse(sorted, c)]

\* the first k courses, in courses_by_size order, that still have students
FirstAvailable(cbs, rem, k) ==
    LET avail == SelectSeq(cbs, LAMBDA c : rem[c] # << >>)
    IN  SubSeq(avail, 1, Min2(k, Len(avail)))

\* any(remaining_courses[c] for c in current_courses)
AnyLeft(rem, cur) == \E i \in 1..Len(cur) : rem[cur[i]] # << >>

\* a plain round-robin over the three courses
AllocationOrder_OneEach == << 1, 2, 3 >>

\* allocation_order = [0, 0, 1, 2], as 1-based positions
AllocationOrder == << 1, 1, 2, 3 >>

\* one iteration of the 2:1:1 while-loop (lines 129-133), idx += 1 apart:
\* <<hall_students, remaining_courses>> after it
Body211(hall_students, rem, cur, idx) ==
    LET course == cur[AllocationOrder[(idx % Len(AllocationOrder)) + 1]]
    IN  IF rem[course] # << >>
        THEN << Append(hall_students, Head(rem[course])),
                [rem EXCEPT ![course] = Tail(@)] >>
        ELSE << hall_students, rem >>

\* the 2:1:1 while-loop (lines 126-133): <<hall_students, remaining_courses>>
RECURSIVE Pack211(_, _, _, _, _)
Pack211(hall_students, rem, cur, idx, usable) ==
    IF Len(hall_students) < usable /\ AnyLeft(rem, cur)
    THEN LET b == Body211(hall_students, rem, cur, idx)
         IN  Pack211(b[1], b[2], cur, idx + 1, usable)
    ELSE << hall_students, rem >>

\* one "for course in current_courses" pass of the round-robin (lines 137-139)
RECURSIVE RoundRobinPass(_, _, _, _)
RoundRobinPass(hall_students, rem, cur, usable) ==
    IF cur = << >> THEN << hall_students, rem >>
    ELSE IF rem[Head(cur)] # << >> /\ Len(hall_students) < usable
         THEN RoundRobinPass(Append(hall_students, Head(rem[Head(cur)])),
                             [rem EXCEPT ![Head(cur)] = Tail(@)], Tail(cur), usable)
         ELSE RoundRobinPass(hall_students, rem, Tail(cur), usable)

\* the round-robin while-loop (lines 136-139)
RECURSIVE PackRoundRobin(_, _, _, _)
PackRoundRobin(hall_students, rem, cur, usable) ==
    IF Len(hall_students) < usable /\ AnyLeft(rem, cur)
    THEN LET p == RoundRobinPass(hall_students, rem, cur, usable)
         IN  PackRoundRobin(p[1], p[2], cur, usable)
    ELSE << hall_students, rem >>

\* _reg_sort_key: (0, int(digits)) if the reg_no has digits, else (1, reg)
RegSortKey(reg) ==
    IF DigitsOf(reg) # << >> THEN << 0, IntOfDigits(DigitsOf(reg)) >> ELSE << 1 >> \o reg

\* hall_students left in the order the packer drew them
SortByRegKey_AsDrawn(studs) == studs

\* hall_students.sort(key=_reg_sort_key)
SortByRegKey(studs) ==
    SortedElements([i \in 1..Len(studs) |-> << RegSortKey(studs[i].reg_no), studs[i] >>])

\* the cells in the order the row-wise loops visit them
RECURSIVE RowMajorCells(_, _, _)
RowMajorCells(r, rows, cols) ==
    IF r >= rows THEN << >>
    ELSE [k \in 1..cols |-> <<r, k - 1>>] \o RowMajorCells(r + 1, rows, cols)

\* one hall of the first pass (lines 99-176):
\* <<hall_courses, hall_seats, allocations, remaining_courses>> after it
Exam1HallStep(hall, hc, seats, allocs, rem, cbs) ==
    LET hall_code       == hall.hall_code
        usable_capacity == Min2(hall.total_capacity, GridCap(hall))
        current_courses == FirstAvailable(cbs, rem, 4)
        packed == IF Len(current_courses) = 3
                  THEN Pack211(<< >>, rem, current_courses, 0, usable_capacity)
                  ELSE PackRoundRobin(<< >>, rem, current_courses, usable_capacity)
        hall_students == SortByRegKey(packed[1])
        cells  == RowMajorCells(0, hall.rows, hall.cols)
        hc1    == [hc EXCEPT ![hall_code] = SeqToSet(current_courses)]
    IN  IF current_courses = << >> THEN << hc1, seats, allocs, rem >>
        ELSE << hc1,
                [seats EXCEPT ![hall_code] = PlaceOnCells(@, cells, hall_students)],
                AllocateOnCells(allocs, hall, cells, hall_students),
                packed[2] >>

\* unallocated_students: the queues of remaining_courses, one after the other
RECURSIVE ConcatQueues(_, _)
ConcatQueues(cbs, rem) ==
    IF cbs = << >> THEN << >> ELSE rem[Head(cbs)] \o ConcatQueues(Tail(cbs), rem)

\* _reg_sort_key2: (course, 0, int(digits)) or (course, 1, reg)
RegSortKey2(st) == << st.course_code >> \o RegSortKey(st.reg_no)

\* unallocated_students.sort(key=_reg_sort_key2)
SortByRegKey2(studs) ==
    SortedElements([i \in 1..Len(studs) |-> << RegSortKey2(studs[i]), studs[i] >>])

\* the last None cell of a grid in row-major order
FirstFreeCell_Last(grid, cells) ==
    LET free == SelectSeq(cells, LAMBDA rc : grid[rc[1]][rc[2]] = << >>)
    IN  IF free = << >> THEN << >> ELSE free[Len(free)]

\* the first None cell of a grid in row-major order, << >> when there is none
FirstFreeCell(grid, cells) ==
    LET free == SelectSeq(cells, LAMBDA rc : grid[rc[1]][rc[2]] = None)
    IN  IF free = << >> THEN << >> ELSE Head(free)

\* "for _ in range(to_allocate)" of the second pass (lines 214-235):
\* <<grid, allocations, unallocated_students>>
RECURSIVE SecondPassFill(_, _, _, _, _)
SecondPassFill(hall, grid, allocs, unalloc, to_allocate) ==
    IF to_allocate = 0 THEN << grid, allocs, unalloc >>
    ELSE LET student == Head(unalloc)
             cell    == FirstFreeCell(grid, RowMajorCells(0, hall.rows, hall.cols))
         IN  IF cell = << >>
             THEN SecondPassFill(hall, grid, allocs, Tail(unalloc), to_allocate - 1)
             ELSE SecondPassFill(hall,
                     [grid EXCEPT ![cell[1]][cell[2]] = student.reg_no],
                     AllocateOnCells(allocs, hall, << cell >>, << student >>),
                     Tail(unalloc), to_allocate - 1)

\* "for hall in self.halls" of the second pass (lines 201-235):
\* <<hall_seats, allocations, unallocated_students>>
RECURSIVE SecondPassHalls(_, _, _, _)
SecondPassHalls(hs, seats, allocs, unalloc) ==
    IF hs = << >> THEN << seats, allocs, unalloc >>
    ELSE LET hall == Head(hs)
             usable_capacity == Min2(hall.total_capacity, GridCap(hall))
             allocated_count == Cardinality(Occupied(seats[hall.hall_code]))
             available_seats == usable_capacity - allocated_count
         IN  IF available_seats > 0 /\ unalloc # << >>
             THEN LET f == SecondPassFill(hall, seats[hall.hall_code], allocs, unalloc,
                                          Min2(available_seats, Len(unalloc)))
                  IN  SecondPassHalls(Tail(hs),
                          [seats EXCEPT ![hall.hall_code] = f[1]], f[2], f[3])
             ELSE SecondPassHalls(Tail(hs), seats, allocs, unalloc)

\* self.validate_inputs() at the head of allocate_seats (line 83)
Exam1Validate ==
    /\ impl = "Exam1" /\ pc = "start"
    /\ LET e == Exam1_validate_inputs(halls, students)
       IN  IF e # "none" THEN pc' = "error" /\ error' = e
           ELSE pc' = "validated" /\ error' = error
    /\ UNCHANGED <<runs, allocators, prev, frame, impl, students, halls, allocations, hall_seats, hall_courses,
                   halls_to_use, students_per_hall, first_half, second_half,
                   courses_by_size, remaining, unallocated_students, hall_idx>>

\* the course grouper (lines 85-96)
Exam1Group ==
    /\ impl = "Exam1" /\ pc = "validated"
    /\ courses_by_size' = CoursesBySize(students)
    /\ remaining' = RemainingCourses(students)
    /\ hall_idx' = 1
    /\ pc' = "halls"
    /\ UNCHANGED <<runs, allocators, prev, frame, impl, students, halls, error, allocations, hall_seats,
                   hall_courses, halls_to_use, students_per_hall, first_half,
                   second_half, unallocated_students>>

\* one hall of the first pass (lines 99-176)
Exam1FirstPassHall ==
    /\ impl = "Exam1" /\ pc = "halls" /\ hall_idx <= Len(halls)
    /\ LET step == Exam1HallStep(halls[hall_idx], hall_courses, hall_seats,
                                 allocations, remaining, courses_by_size)
       IN  /\ hall_courses' = step[1]
           /\ hall_seats' = step[2]
           /\ allocations' = step[3]
           /\ remaining' = step[4]
    /\ hall_idx' = hall_idx + 1
    /\ UNCHANGED <<runs, allocators, prev, frame, impl, students, halls, pc, error, halls_to_use,
                   students_per_hall, first_half, second_half, courses_by_size,
                   unallocated_students>>

\* the second pass (lines 178-235)
Exam1SecondPass ==
    /\ impl = "Exam1" /\ pc = "halls" /\ hall_idx > Len(halls)
    /\ LET unalloc == ConcatQueues(courses_by_size, remaining)
           r == SecondPassHalls(halls, hall_seats, allocations, SortByRegKey2(unalloc))
       IN  IF unalloc # << >>
           THEN /\ hall_seats' = r[1]
                /\ allocations' = r[2]
                /\ unallocated_students' = r[3]
           ELSE UNCHANGED <<hall_seats, allocations, unallocated_students>>
    /\ pc' = "second_pass_done"
    /\ UNCHANGED <<runs, allocators, prev, frame, impl, students, halls, error, hall_courses, halls_to_use,
                   students_per_hall, first_half, second_half, courses_by_size,
                   remaining, hall_idx>>

\* the final check (lines 237-240): it counts remaining_courses
Exam1Check ==
    /\ impl = "Exam1" /\ pc = "second_pass_done"
    /\ LET unallocated ==
               SumSeq([i \in 1..Len(courses_by_size) |-> Len(remaining[courses_by_size[i]])])
       IN  IF unallocated > 0
           THEN pc' = "error" /\ error' = "unallocated"
           ELSE pc' = "done" /\ error' = error
    /\ UNCHANGED <<runs, allocators, prev, frame, impl, students, halls, allocations, hall_seats, hall_courses,
                   halls_to_use, students_per_hall, first_half, second_half,
                   courses_by_size, remaining, unallocated_students, hall_idx>>

NextExam1 ==
    Exam1Validate \/ Exam1Group \/ Exam1FirstPassHall \/ Exam1SecondPass \/ Exam1Check

\* The first pass with every iteration of a packing loop a step of its own:
\* the head of one hall iteration (lines 100-121)
Exam1EnterHall ==
    /\ impl = "Exam1" /\ pc = "halls" /\ hall_idx <= Len(halls)
    /\ LET hall == halls[hall_idx]
           current_courses == FirstAvailable(courses_by_size, remaining, 4)
       IN  /\ hall_courses' = [hall_courses EXCEPT ![hall.hall_code] =
                                   SeqToSet(current_courses)]
           /\ IF current_courses = << >>
              THEN pc' = pc /\ hall_idx' = hall_idx + 1 /\ frame' = frame
              ELSE /\ pc' = "packing" /\ hall_idx' = hall_idx
                   /\ frame' = [NoFrame EXCEPT
                          !.usable = Min2(hall.total_capacity, GridCap(hall)),
                          !.current_courses = current_courses]
    /\ UNCHANGED <<runs, allocators, prev, impl, students, halls, error, allocations,
                   hall_seats, halls_to_use, students_per_hall, first_half,
                   second_half, courses_by_size, remaining, unallocated_students>>

\* the test of the while-loop of the branch taken and, when it holds, one
\* iteration of it (lines 128-133 or 136-139)
Exam1PackIter ==
    /\ impl = "Exam1" /\ pc = "packing"
    /\ IF Len(frame.hall_students) < frame.usable
          /\ AnyLeft(remaining, frame.current_courses)
       THEN LET b == IF Len(frame.current_courses) = 3
                     THEN Body211(frame.hall_students, remaining,
                                  frame.current_courses, frame.idx)
                     ELSE RoundRobinPass(frame.hall_students, remaining,
                                         frame.current_courses, frame.usable)
            IN  /\ frame' = [frame EXCEPT
                       !.hall_students = b[1],
                       !.idx = IF Len(frame.current_courses) = 3 THEN @ + 1 ELSE @]
                /\ remaining' = b[2]
                /\ pc' = pc
       ELSE pc' = "placing" /\ UNCHANGED <<frame, remaining>>
    /\ UNCHANGED <<runs, allocators, prev, impl, students, halls, error, allocations,
                   hall_seats, hall_courses, halls_to_use, students_per_hall,
                   first_half, second_half, courses_by_size,
                   unallocated_students, hall_idx>>

\* the sort by _reg_sort_key and the row-wise assignment (lines 141-176)
Exam1PlaceHall ==
    /\ impl = "Exam1" /\ pc = "placing"
    /\ \E hall_students \in { SortByRegKey(frame.hall_students) } :
           LET hall  == halls[hall_idx]
               cells == RowMajorCells(0, hall.rows, hall.cols)
           IN  /\ frame' = [frame EXCEPT !.hall_students = hall_students]
               /\ hall_seats' = [hall_seats EXCEPT ![hall.hall_code] =
                                     PlaceOnCells(@, cells, hall_students)]
               /\ allocations' = AllocateOnCells(allocations, hall, cells,
                                                 hall_students)
    /\ hall_idx' = hall_idx + 1
    /\ pc' = "halls"
    /\ UNCHANGED <<runs, allocators, prev, impl, students, halls, error, hall_courses,
                   halls_to_use, students_per_hall, first_half, second_half,
                   courses_by_size, remaining, unallocated_students>>

StepsExam1 ==
    \/ Exam1Validate \/ Exam1Group
    \/ Exam1EnterHall \/ Exam1PackIter \/ Exam1PlaceHall
    \/ Exam1SecondPass \/ Exam1Check

-----------------------------------------------------------------------------
(* pdf_reports/University_Exam_Seat_Allocater (copy).py: allocate_seats *)

\* validate_inputs of the copy (lines 88-99)
Copy_validate_inputs(hs, ss) ==
    IF \E i \in 1..Len(hs) : hs[i].total_capacity > GridCap(hs[i])
    THEN "hall_capacity"
    ELSE IF Len(ss) > TotalSeats(hs) THEN "not_enough_seats" ELSE "none"

\* required_seats = ceil(total_students / 25) * 25, 0 without students
RequiredSeats(n) ==
    IF n > 0 THEN ((n + (BlockSize - 1)) \div BlockSize) * BlockSize ELSE 0

\* the selection loop (lines 139-146): halls in the order provided until
\* selected_capacity >= required_seats
RECURSIVE CopySelectLoop(_, _, _, _)
CopySelectLoop(hs, selected_halls, selected_capacity, required) ==
    IF hs = << >> THEN selected_halls
    ELSE LET cap == selected_capacity + GridCap(Head(hs))
             sel == Append(selected_halls, Head(hs))
         IN  IF cap >= required THEN sel
             ELSE CopySelectLoop(Tail(hs), sel, cap, required)

CopySelectedHalls(hs, n) == CopySelectLoop(hs, << >>, 0, RequiredSeats(n))

\* students_per_hall (lines 151-167): 0 for every hall, then the floor shares
\* of the selected halls and one remainder pass over them
CopyStudentsPerHall(hs, selected_halls, n) ==
    LET selected_capacity == TotalSeats(selected_halls)
        count == [i \in 1..Len(selected_halls) |->
                     ShareCount(GridCap(selected_halls[i]), selected_capacity, n)]
        remaining_to_place == n - SumSeq(count)
    IN  [code \in { hs[i].hall_code : i \in 1..Len(hs) } |->
            IF selected_capacity > 0 /\ n > 0
               /\ \E j \in 1..Len(selected_halls) : selected_halls[j].hall_code = code
            THEN LET i == CHOOSE j \in 1..Len(selected_halls) :
                              selected_halls[j].hall_code = code
                 IN  count[i] + (IF i <= remaining_to_place THEN 1 ELSE 0)
            ELSE 0]

\* current_courses.remove(course)
RemoveFirst(s, x) ==
    IF \E i \in 1..Len(s) : s[i] = x
    THEN LET i == CHOOSE j \in 1..Len(s) : s[j] = x /\ \A k \in 1..(j - 1) : s[k] # x
         IN  SubSeq(s, 1, i - 1) \o SubSeq(s, i + 1, Len(s))
    ELSE s

\* one "for course in list(current_courses)" pass (lines 205-219) over the
\* snapshot snap; w = [hs, rem, cur, fut, hc]: hall_students, remaining,
\* current_courses, future_courses, hall_courses[hall_code]
RECURSIVE CopyForPass(_, _, _)
CopyForPass(snap, w, usable) ==
    IF snap = << >> THEN w
    ELSE IF Len(w.hs) >= usable THEN w
    ELSE LET course == Head(snap)
         IN  IF w.rem[course] # << >>
             THEN CopyForPass(Tail(snap),
                     [w EXCEPT !.hs = Append(@, Head(w.rem[course])),
                               !.rem = [@ EXCEPT ![course] = Tail(@)]],
                     usable)
             ELSE LET admitted ==
                          IF w.fut # << >>
                          THEN [w EXCEPT !.cur = Append(@, Head(w.fut)),
                                         !.hc = @ \cup { Head(w.fut) },
                                         !.fut = Tail(@)]
                          ELSE w
                  IN  CopyForPass(Tail(snap),
                          [admitted EXCEPT !.cur = RemoveFirst(@, course)], usable)

\* the window while-loop (lines 202-223)
RECURSIVE CopyPackWhile(_, _)
CopyPackWhile(w, usable) ==
    IF Len(w.hs) < usable
    THEN LET w1 == CopyForPass(w.cur, w, usable)
         IN  IF w1.cur = << >> THEN w1 ELSE CopyPackWhile(w1, usable)
    ELSE w

\* one hall of the allocation loop (lines 173-247):
\* <<hall_courses, hall_seats, allocations, remaining>> after it
CopyHallStep(hall, hc, seats, allocs, rem, courses_sorted, sph) ==
    LET hall_code       == hall.hall_code
        target          == sph[hall_code]
        usable_capacity == Min2(Min2(GridCap(hall), hall.total_capacity), target)
        current_courses == FirstAvailable(courses_sorted, rem, 2)
        future_courses  ==
            SelectSeq(courses_sorted, LAMBDA c : c \notin SeqToSet(current_courses))
        w == CopyPackWhile([hs |-> << >>, rem |-> rem, cur |-> current_courses,
                            fut |-> future_courses, hc |-> SeqToSet(current_courses)],
                           usable_capacity)
        cells == SerpentineCells(0, hall.rows, hall.cols)
    IN  IF target <= 0 THEN << hc, seats, allocs, rem >>
        ELSE << [hc EXCEPT ![hall_code] = w.hc],
                [seats EXCEPT ![hall_code] = PlaceOnCells(@, cells, w.hs)],
                AllocateOnCells(allocs, hall, cells, w.hs),
                w.rem >>

\* self.validate_inputs() at the head of allocate_seats (line 104)
CopyValidate ==
    /\ impl = "Copy" /\ pc = "start"
    /\ LET e == Copy_validate_inputs(halls, students)
       IN  IF e # "none" THEN pc' = "error" /\ error' = e
           ELSE pc' = "validated" /\ error' = error
    /\ UNCHANGED <<runs, allocators, prev, frame, impl, students, halls, allocations, hall_seats, hall_courses,
                   halls_to_use, students_per_hall, first_half, second_half,
                   courses_by_size, remaining, unallocated_students, hall_idx>>

\* the course grouper (lines 106-119): the same statements as Exam1's
CopyGroup ==
    /\ impl = "Copy" /\ pc = "validated"
    /\ courses_by_size' = CoursesBySize(students)
    /\ remaining' = RemainingCourses(students)
    /\ pc' = "grouped"
    /\ UNCHANGED <<runs, allocators, prev, frame, impl, students, halls, error, allocations, hall_seats,
                   hall_courses, halls_to_use, students_per_hall, first_half,
                   second_half, unallocated_students, hall_idx>>

\* hall selection in 25-seat blocks and the proportional distribution
\* (lines 128-167)
CopyDistribute ==
    /\ impl = "Copy" /\ pc = "grouped"
    /\ halls_to_use' = CopySelectedHalls(halls, Len(students))
    /\ students_per_hall' =
           CopyStudentsPerHall(halls, CopySelectedHalls(halls, Len(students)),
                               Len(students))
    /\ hall_idx' = 1
    /\ pc' = "halls"
    /\ UNCHANGED <<runs, allocators, prev, frame, impl, students, halls, error, allocations, hall_seats,
                   hall_courses, first_half, second_half, courses_by_size,
                   remaining, unallocated_students>>

\* one hall of the allocation loop (lines 173-247)
CopyAllocateHall ==
    /\ impl = "Copy" /\ pc = "halls" /\ hall_idx <= Len(halls)
    /\ LET step == CopyHallStep(halls[hall_idx], hall_courses, hall_seats,
                                allocations, remaining, courses_by_size,
                                students_per_hall)
       IN  /\ hall_courses' = step[1]
           /\ hall_seats' = step[2]
           /\ allocations' = step[3]
           /\ remaining' = step[4]
    /\ hall_idx' = hall_idx + 1
    /\ UNCHANGED <<runs, allocators, prev, frame, impl, students, halls, pc, error, halls_to_use,
                   students_per_hall, first_half, second_half, courses_by_size,
                   unallocated_students>>

\* the final check (lines 249-252)
CopyCheck ==
    /\ impl = "Copy" /\ pc = "halls" /\ hall_idx > Len(halls)
    /\ LET unallocated ==
               SumSeq([i \in 1..Len(courses_by_size) |-> Len(remaining[courses_by_size[i]])])
       IN  IF unallocated > 0
           THEN pc' = "error" /\ error' = "unallocated"
           ELSE pc' = "done" /\ error' = error
    /\ UNCHANGED <<runs, allocators, prev, frame, impl, students, halls, allocations, hall_seats, hall_courses,
                   halls_to_use, students_per_hall, first_half, second_half,
                   courses_by_size, remaining, unallocated_students, hall_idx>>

NextCopy == CopyValidate \/ CopyGroup \/ CopyDistribute \/ CopyAllocateHall \/ CopyCheck

\* The allocation loop with every pass of the window loop a step of its own:
\* the head of one hall iteration (lines 174-199)
CopyEnterHall ==
    /\ impl = "Copy" /\ pc = "halls" /\ hall_idx <= Len(halls)
    /\ LET hall   == halls[hall_idx]
           target == students_per_hall[hall.hall_code]
           current_courses == FirstAvailable(courses_by_size, remaining, 2)
       IN  IF target <= 0
           THEN /\ pc' = pc /\ hall_idx' = hall_idx + 1
                /\ UNCHANGED <<frame, hall_courses>>
           ELSE /\ pc' = "packing" /\ hall_idx' = hall_idx
                /\ hall_courses' = [hall_courses EXCEPT ![hall.hall_code] =
                                        SeqToSet(current_courses)]
                /\ frame' = [NoFrame EXCEPT
                       !.usable = Min2(Min2(GridCap(hall), hall.total_capacity), target),
                       !.current_courses = current_courses,
                       !.future_courses =
                           SelectSeq(courses_by_size,
                                     LAMBDA c : c \notin SeqToSet(current_courses))]
    /\ UNCHANGED <<runs, allocators, prev, impl, students, halls, error, allocations,
                   hall_seats, halls_to_use, students_per_hall, first_half,
                   second_half, courses_by_size, remaining, unallocated_students>>

\* the test of the while-loop and, when it holds, one pass over the window
\* with the break that follows it (lines 202-223)
CopyPackIter ==
    /\ impl = "Copy" /\ pc = "packing"
    /\ LET code == halls[hall_idx].hall_code
       IN  IF Len(frame.hall_students) < frame.usable
           THEN LET w == CopyForPass(frame.current_courses,
                             [hs |-> frame.hall_students, rem |-> remaining,
                              cur |-> frame.current_courses,
                              fut |-> frame.future_courses,
                              hc |-> hall_courses[code]],
                             frame.usable)
                IN  /\ frame' = [frame EXCEPT !.hall_students = w.hs,
                                              !.current_courses = w.cur,
                                              !.future_courses = w.fut]
                    /\ remaining' = w.rem
                    /\ hall_courses' = [hall_courses EXCEPT ![code] = w.hc]
                    /\ pc' = IF w.cur = << >> THEN "placing" ELSE pc
           ELSE pc' = "placing" /\ UNCHANGED <<frame, remaining, hall_courses>>
    /\ UNCHANGED <<runs, allocators, prev, impl, students, halls, error, allocations,
                   hall_seats, halls_to_use, students_per_hall, first_half,
                   second_half, courses_by_size, unallocated_students, hall_idx>>

\* the S-pattern assignment (lines 225-247)
CopyPlaceHall ==
    /\ impl = "Copy" /\ pc = "placing"
    /\ LET hall  == halls[hall_idx]
           cells == SerpentineCells(0, hall.rows, hall.cols)
       IN  /\ hall_seats' = [hall_seats EXCEPT ![hall.hall_code] =
                                 PlaceOnCells(@, cells, frame.hall_students)]
           /\ allocations' = AllocateOnCells(allocations, hall, cells,
                                             frame.hall_students)
    /\ hall_idx' = hall_idx + 1
    /\ pc' = "halls"
    /\ UNCHANGED <<runs, allocators, prev, frame, impl, students, halls, error,
                   hall_courses, halls_to_use, students_per_hall, first_half,
                   second_half, courses_by_size, remaining, unallocated_students>>

StepsCopy ==
    \/ CopyValidate \/ CopyGroup \/ CopyDistribute
    \/ CopyEnterHall \/ CopyPackIter \/ CopyPlaceHall \/ CopyCheck

-----------------------------------------------------------------------------
(* Inputs and initial states *)

\* the halls an input may hold: full halls of 1, 2, 4 and 25 seats (the last
\* alone reaches one 25-seat block, so that hall selection can stop early),
\* one hall declared below its grid and one declared above it
HallChoices ==
    { [rows |-> 1, cols |-> 1, total_capacity |-> 1],
      [rows |-> 1, cols |-> 2, total_capacity |-> 2],
      [rows |-> 2, cols |-> 2, total_capacity |-> 4],
      [rows |-> 2, cols |-> 2, total_capacity |-> 3],
      [rows |-> 2, cols |-> 2, total_capacity |-> 5],
      [rows |-> 5, cols |-> 5, total_capacity |-> 25] }

\* self.halls: up to MaxHalls halls, hall_code = position
MakeHalls(f) ==
    [i \in DOMAIN f |-> [hall_code |-> i, rows |-> f[i].rows, cols |-> f[i].cols,
                         total_capacity |-> f[i].total_capacity]]

HallLists ==
    UNION { { MakeHalls(f) : f \in [1..n -> HallChoices] } : n \in 0..MaxHalls }

\* self.students: the i-th student has the i-th registration number of the
\* pool and any course
MakeStudents(f) == [i \in DOMAIN f |-> [reg_no |-> RegOf(i), course_code |-> f[i]]]

StudentLists(courses, maxn) ==
    UNION { { MakeStudents(f) : f \in [1..n -> courses] } : n \in 0..maxn }

\* the allocator after __init__ (lines 16-23), before allocate_seats
Constructed(im, hs, ss) ==
    /\ impl = im
    /\ students = ss
    /\ halls = hs
    /\ pc = "start"
    /\ error = "none"
    /\ allocations = << >>
    /\ hall_seats = [code \in 1..Len(hs) |-> EmptyGrid(hs[code])]
    /\ hall_courses = [code \in 1..Len(hs) |-> {}]
    /\ halls_to_use = << >>
    /\ students_per_hall = << >>
    /\ first_half = << >>
    /\ second_half = << >>
    /\ courses_by_size = << >>
    /\ remaining = << >>
    /\ unallocated_students = << >>
    /\ hall_idx = 0
    /\ frame = NoFrame
    /\ prev = NoRun
    /\ runs = << >>
    /\ allocators = << >>

InitUniv ==
    \E hs \in HallLists, ss \in StudentLists({1, 2}, MaxStudents) :
        Constructed("Univ", hs, ss)

InitExam1 ==
    \E hs \in HallLists, ss \in StudentLists(Courses, MaxStudents) :
        Constructed("Exam1", hs, ss)

InitCopy ==
    \E hs \in HallLists, ss \in StudentLists(Courses, MaxStudents) :
        Constructed("Copy", hs, ss)

\* Inputs whose seat totals reach the 22 to 26 seats where the float division
\* of the distributor rounds below the exact share: two halls with
\* total_capacity = rows * cols, and as many students as seats, or one less
LargeDims == { <<1, 7>>, <<3, 5>>, <<1, 13>>, <<2, 5>>, <<1, 11>> }

LargeHallLists ==
    { MakeHalls(<< [rows |-> a[1], cols |-> a[2], total_capacity |-> a[1] * a[2]],
                   [rows |-> b[1], cols |-> b[2], total_capacity |-> b[1] * b[2]] >>) :
        a \in LargeDims, b \in LargeDims }

InitLarge ==
    \E im \in {"Univ", "Exam1", "Copy"}, hs \in LargeHallLists, slack \in {0, 1} :
        Constructed(im, hs,
            MakeStudents([i \in 1..(TotalSeats(hs) - slack) |-> 1 + (i % 2)]))

\* Inputs with more courses than one hall's window holds (Exam1 takes up to
\* 4 courses per hall): the i-th student sits one of the courses 1..i
ManyCourseHalls ==
    { [rows |-> 2, cols |-> 2, total_capacity |-> 4],
      [rows |-> 2, cols |-> 2, total_capacity |-> 3],
      [rows |-> 5, cols |-> 5, total_capacity |-> 25] }

ManyCourseHallLists ==
    UNION { { MakeHalls(f) : f \in [1..n -> ManyCourseHalls] } : n \in 1..MaxHalls }

ManyCourseStudentLists ==
    { MakeStudents(f) : f \in { g \in [1..(MaxStudents + 1) -> 1..(MaxStudents + 1)] :
                                    \A i \in DOMAIN g : g[i] <= i } }

InitManyCourses ==
    \E im \in {"Exam1", "Copy"}, hs \in ManyCourseHallLists, ss \in ManyCourseStudentLists :
        Constructed(im, hs, ss)

\* The end-to-end scenario: halls A and B, each 2 x 2 with total_capacity 4,
\* and 8 students in 3 courses of sizes 5, 2 and 1, in any list order
ScenarioHalls ==
    MakeHalls(<< [rows |-> 2, cols |-> 2, total_capacity |-> 4],
                 [rows |-> 2, cols |-> 2, total_capacity |-> 4] >>)

CourseSize(f, c) == Cardinality({ i \in DOMAIN f : f[i] = c })

ScenarioStudentLists ==
    { MakeStudents(f) : f \in { g \in [1..8 -> {1, 2, 3}] :
          { CourseSize(g, 1), CourseSize(g, 2), CourseSize(g, 3) } = {5, 2, 1} } }

InitE2E ==
    \E im \in {"Univ", "Exam1", "Copy"}, ss \in ScenarioStudentLists :
        Constructed(im, ScenarioHalls, ss)

Init == InitUniv \/ InitExam1 \/ InitCopy \/ InitLarge

Next == NextUniv \/ NextExam1 \/ NextCopy

\* allocate_seats of the three files on the bounded inputs
Spec == Init /\ [][Next]_vars

\* the allocators that group by course, on inputs of many courses
SpecManyCourses == InitManyCourses /\ [][NextExam1 \/ NextCopy]_vars

\* the end-to-end scenario under the three allocators
SpecE2E == InitE2E /\ [][Next]_vars

\* Inputs for the runs in which every iteration of a packing loop is a step:
\* halls of 2, 3 and 4 usable seats; the i-th student sits a course <= i
StepHallChoices ==
    { [rows |-> 1, cols |-> 2, total_capacity |-> 2],
      [rows |-> 2, cols |-> 2, total_capacity |-> 4],
      [rows |-> 2, cols |-> 2, total_capacity |-> 3] }

StepHallLists ==
    UNION { { MakeHalls(f) : f \in [1..n -> StepHallChoices] } : n \in 1..MaxHalls }

StepStudentLists ==
    UNION { { MakeStudents(f) : f \in { g \in [1..n -> Courses] :
                                            \A i \in DOMAIN g : g[i] <= i } } :
            n \in 0..MaxStudents }

InitSteps ==
    \E im \in {"Univ", "Exam1", "Copy"}, hs \in StepHallLists, ss \in StepStudentLists :
        Constructed(im, hs, ss)

NextSteps == StepsUniv \/ StepsExam1 \/ StepsCopy

\* the steps of the loops over the halls and of what follows them
LoopSteps ==
    \/ UnivEnterHall \/ UnivPackIter \/ UnivPlaceHall \/ UnivCheck
    \/ Exam1EnterHall \/ Exam1PackIter \/ Exam1PlaceHall
    \/ Exam1SecondPass \/ Exam1Check
    \/ CopyEnterHall \/ CopyPackIter \/ CopyPlaceHall \/ CopyCheck

\* allocate_seats of the three files, packing loops iteration by iteration;
\* the interpreter always takes the next step of a loop that can go on
SpecSteps == InitSteps /\ [][NextSteps]_vars /\ WF_vars(LoopSteps)

\* One hall of up to MaxRows x MaxCols cells, total_capacity = rows * cols,
\* and any number of students it can seat, in two courses
MaxRows == 3

MaxCols == 4

InitSerpentine ==
    \E im \in {"Univ", "Copy"}, rows \in 1..MaxRows, cols \in 1..MaxCols :
        \E n \in 0..(rows * cols) :
            Constructed(im,
                MakeHalls(<< [rows |-> rows, cols |-> cols,
                              total_capacity |-> rows * cols] >>),
                MakeStudents([i \in 1..n |-> 1 + (i % 2)]))

\* the two allocators that place in the S-pattern, on one hall
SpecSerpentine == InitSerpentine /\ [][StepsUniv \/ StepsCopy]_vars

\* Inputs for the hall selection: up to MaxHalls + 1 halls of 1, 10, 15 and
\* 25 cells, and 0, 1, 12 or 26 students (0, 25 or 50 seats required)
SelectionHallChoices ==
    { [rows |-> 1, cols |-> 1, total_capacity |-> 1],
      [rows |-> 2, cols |-> 5, total_capacity |-> 10],
      [rows |-> 3, cols |-> 5, total_capacity |-> 15],
      [rows |-> 5, cols |-> 5, total_capacity |-> 25] }

SelectionHallLists ==
    UNION { { MakeHalls(f) : f \in [1..n -> SelectionHallChoices] } :
            n \in 0..(MaxHalls + 1) }

SelectionStudentCounts == { 0, 1, (BlockSize - 1) \div 2, BlockSize + 1 }

InitSelection ==
    \E hs \in SelectionHallLists, n \in SelectionStudentCounts :
        Constructed("Univ", hs, MakeStudents([i \in 1..n |-> 1 + (i % 2)]))

\* University's allocate_seats on the inputs for the hall selection
SpecSelection == InitSelection /\ [][NextUniv]_vars

\* A second ExamSeatAllocator built on the same students and halls once the
\* first one's allocate_seats has ended (__init__, lines 12-23); prev keeps
\* what the first one ended with
UnivSecondInstance ==
    /\ impl = "Univ" /\ pc \in {"done", "error"} /\ prev = NoRun
    /\ prev' = [ended |-> pc, error |-> error, allocations |-> allocations,
                hall_seats |-> hall_seats]
    /\ pc' = "start"
    /\ error' = "none"
    /\ allocations' = << >>
    /\ hall_seats' = [code \in 1..Len(halls) |-> EmptyGrid(halls[code])]
    /\ hall_courses' = [code \in 1..Len(halls) |-> {}]
    /\ halls_to_use' = << >>
    /\ students_per_hall' = << >>
    /\ first_half' = << >>
    /\ second_half' = << >>
    /\ hall_idx' = 0
    /\ UNCHANGED <<runs, allocators, frame, impl, students, halls, courses_by_size,
                   remaining, unallocated_students>>

\* allocate_seats called again on the instance whose first call returned:
\* the locals are new, self.allocations, self.hall_seats and self.hall_courses
\* are the ones __init__ made, as the first call left them (nothing in
\* lines 101-215 resets them); prev keeps what the first call ended with
UnivSecondCall ==
    /\ impl = "Univ" /\ pc = "done" /\ prev = NoRun
    /\ prev' = [ended |-> pc, error |-> error, allocations |-> allocations,
                hall_seats |-> hall_seats, hall_courses |-> hall_courses]
    /\ pc' = "start"
    /\ halls_to_use' = << >>
    /\ students_per_hall' = << >>
    /\ first_half' = << >>
    /\ second_half' = << >>
    /\ hall_idx' = 0
    /\ UNCHANGED <<runs, allocators, frame, impl, students, halls, error,
                   allocations, hall_seats, hall_courses, courses_by_size,
                   remaining, unallocated_students>>

InitTwoRuns == InitUniv \/ (InitLarge /\ impl = "Univ")

\* University's allocate_seats on two fresh instances with the same input,
\* one after the other
SpecTwoRuns == InitTwoRuns /\ [][NextUniv \/ UnivSecondInstance]_vars

\* University's allocate_seats called twice on one instance
SpecRerun == InitTwoRuns /\ [][NextUniv \/ UnivSecondCall]_vars

\* Inputs for the window of the copy: halls of 2, 3 and 4 seats and up to
\* MaxStudents + 2 students in up to 3 courses (a course named i first occurs
\* at position i or later), enough for a course to be used up in one hall
\* while a later hall still replaces courses
WindowHallChoices ==
    { [rows |-> 1, cols |-> 2, total_capacity |-> 2],
      [rows |-> 1, cols |-> 3, total_capacity |-> 3],
      [rows |-> 2, cols |-> 2, total_capacity |-> 4] }

WindowHallLists ==
    UNION { { MakeHalls(f) : f \in [1..n -> WindowHallChoices] } : n \in 1..MaxHalls }

WindowStudentLists ==
    UNION { { MakeStudents(f) : f \in { g \in [1..n -> Courses] :
                                            \A i \in DOMAIN g : g[i] <= i } } :
            n \in 0..(MaxStudents + 2) }

InitWindow ==
    \E hs \in WindowHallLists, ss \in WindowStudentLists : Constructed("Copy", hs, ss)

\* allocate_seats of the copy, one pass over the window per step
SpecWindow == InitWindow /\ [][StepsCopy]_vars

\* Inputs that leave students to the second pass of Exam1: k courses of s
\* students each, more courses than the windows of the halls take (4 per
\* hall); the students come course k first, so that the course left over
\* holds the registration numbers "9" and "10"
SecondPassCourseCounts == { 5, 6, 9, 10 }

SecondPassCourseSizes == { 1, 2 }

SecondPassHallChoices ==
    { [rows |-> 1, cols |-> 2, total_capacity |-> 2],
      [rows |-> 2, cols |-> 3, total_capacity |-> 6],
      [rows |-> 2, cols |-> 3, total_capacity |-> 5],
      [rows |-> 3, cols |-> 4, total_capacity |-> 9],
      [rows |-> 3, cols |-> 4, total_capacity |-> 12] }

SecondPassHallLists ==
    UNION { { MakeHalls(f) : f \in [1..n -> SecondPassHallChoices] } :
            n \in 1..MaxHalls }

SecondPassStudentLists ==
    { MakeStudents([i \in 1..(k * s) |-> k - ((i - 1) \div s)]) :
        k \in SecondPassCourseCounts, s \in SecondPassCourseSizes }

InitSecondPass ==
    \E hs \in SecondPassHallLists, ss \in SecondPassStudentLists :
        Constructed("Exam1", hs, ss)

\* allocate_seats of Exam1 on inputs of many courses
SpecSecondPass == InitSecondPass /\ [][NextExam1]_vars

\* Inputs for the 2:1:1 loop of Exam1: three courses of a >= b >= c >= 1
\* students, up to MaxStudents + 4 in all, course 1 first in the list, and
\* halls of 4 to 9 seats
RatioCourseSizes ==
    { t \in (1..MaxStudents) \X (1..MaxStudents) \X (1..MaxStudents) :
          t[1] >= t[2] /\ t[2] >= t[3] /\ t[1] + t[2] + t[3] <= MaxStudents + 4 }

RatioStudentLists ==
    { MakeStudents([i \in 1..(t[1] + t[2] + t[3]) |->
                       IF i <= t[1] THEN 1 ELSE IF i <= t[1] + t[2] THEN 2 ELSE 3]) :
        t \in RatioCourseSizes }

RatioHallChoices ==
    { [rows |-> 2, cols |-> 2, total_capacity |-> 4],
      [rows |-> 2, cols |-> 3, total_capacity |-> 5],
      [rows |-> 2, cols |-> 3, total_capacity |-> 6],
      [rows |-> 3, cols |-> 3, total_capacity |-> 9] }

RatioHallLists ==
    UNION { { MakeHalls(f) : f \in [1..n -> RatioHallChoices] } : n \in 1..MaxHalls }

InitRatio ==
    \E hs \in RatioHallLists, ss \in RatioStudentLists : Constructed("Exam1", hs, ss)

\* allocate_seats of Exam1 on three courses, one turn of the loop per step
SpecRatio == InitRatio /\ [][StepsExam1]_vars

-----------------------------------------------------------------------------
(* University_Exam_Seat_Allocater.py: export_pdf_seating_plan, the seat      *)
(* numbers of its tables.  A hall carries the text of its hall_code besides  *)
(* the position that stands for it as a dictionary key.                      *)

\* hall_code.rsplit('-', 1)[0] if '-' in hall_code else hall_code ('-' is 45)
BaseCode(text) ==
    IF \E i \in 1..Len(text) : text[i] = 45
    THEN LET last == CHOOSE i \in 1..Len(text) :
                         text[i] = 45 /\ \A j \in (i + 1)..Len(text) : text[j] # 45
         IN  SubSeq(text, 1, last - 1)
    ELSE text

\* seat_no_grid of one hall (lines 298-310), numbered from seat_number on
SeatNoGrid(rows, cols, seat_number, continue_in_reverse) ==
    [r \in 0..(rows - 1) |-> [c \in 0..(cols - 1) |->
        LET left_to_right == \/ (r % 2 = 0 /\ ~continue_in_reverse)
                             \/ (r % 2 = 1 /\ continue_in_reverse)
        IN  seat_number + (r * cols) + (IF left_to_right THEN c ELSE cols - 1 - c)]]

\* the loop over self.halls (lines 253-313) from the idx-th hall on: the
\* seat_no_grid of every hall that is not skipped, and last_seat_per_base
RECURSIVE SeatNoGrids(_, _, _, _, _)
SeatNoGrids(hs, seats, idx, last_seat_per_base, grids) ==
    IF idx > Len(hs)
    THEN [seat_no_grid |-> grids, last_seat_per_base |-> last_seat_per_base]
    ELSE LET hall == hs[idx]
         IN  IF Occupied(seats[hall.hall_code]) = {}
             THEN SeatNoGrids(hs, seats, idx + 1, last_seat_per_base, grids)
             ELSE LET base == BaseCode(hall.code_text)
                      continue_in_reverse == base \in DOMAIN last_seat_per_base
                      seat_number == (IF continue_in_reverse
                                      THEN last_seat_per_base[base] ELSE 0) + 1
                      grid == SeatNoGrid(hall.rows, hall.cols, seat_number,
                                         continue_in_reverse)
                  IN  SeatNoGrids(hs, seats, idx + 1,
                          (base :> (seat_number + (hall.rows * hall.cols) - 1))
                              @@ last_seat_per_base,
                          (hall.hall_code :> grid) @@ grids)

\* export_pdf_seating_plan on an allocator whose allocate_seats has ended:
\* frame holds the seat numbers that the tables of the report print
UnivExportPdf ==
    /\ impl = "Univ" /\ pc \in {"done", "error"}
    /\ pc' = "exported"
    /\ frame' = SeatNoGrids(halls, hall_seats, 1, << >>, << >>)
    /\ UNCHANGED <<runs, allocators, prev, impl, students, halls, error, allocations,
                   hall_seats, hall_courses, halls_to_use, students_per_hall,
                   first_half, second_half, courses_by_size, remaining,
                   unallocated_students, hall_idx>>

\* Inputs for the report: up to MaxHalls + 1 halls of 1, 2, 4 and 6 seats
\* with the codes "A-1", "A-2", "A", "B-1" (no code twice), and up to
\* MaxStudents students of two courses
ExportCodeTexts == { <<65, 45, 49>>, <<65, 45, 50>>, <<65>>, <<66, 45, 49>> }

ExportHallShapes ==
    { [rows |-> 1, cols |-> 1, total_capacity |-> 1],
      [rows |-> 1, cols |-> 2, total_capacity |-> 2],
      [rows |-> 2, cols |-> 2, total_capacity |-> 4],
      [rows |-> 2, cols |-> 3, total_capacity |-> 6] }

ExportHallLists ==
    UNION { { [i \in 1..n |-> [hall_code |-> i, code_text |-> t[i],
                               rows |-> f[i].rows, cols |-> f[i].cols,
                               total_capacity |-> f[i].total_capacity]] :
              f \in [1..n -> ExportHallShapes],
              t \in { u \in [1..n -> ExportCodeTexts] :
                        \A i, j \in 1..n : u[i] = u[j] => i = j } } :
            n \in 1..(MaxHalls + 1) }

InitExport ==
    \E hs \in ExportHallLists, n \in 0..MaxStudents :
        Constructed("Univ", hs, MakeStudents([i \in 1..n |-> 1 + (i % 2)]))

\* University's allocate_seats and then the report of its result
SpecExport == InitExport /\ [][NextUniv \/ UnivExportPdf]_vars

-----------------------------------------------------------------------------
(* exam_gui.py: the "Run Allocation" and "Preview" buttons.  Every click is  *)
(* an activation, runs[i]: run_allocation on a thread of its own, or         *)
(* preview_allocation on the main thread.  What the allocator's methods do   *)
(* is seen from the caller: they return or raise.                            *)

\* clicks on the two buttons
MaxClicks == 2

\* the locals of run_allocation / preview_allocation at their first statement
NewActivation(kind) ==
    [kind |-> kind, pc |-> "make", allocator |-> 0, allocate |-> "none",
     exports |-> 0, attempt |-> 0, dialog |-> "none"]

\* an ExamSeatAllocator as its constructor leaves it
NewAllocator == [entered |-> {}, state |-> "constructed"]

\* the Tk main loop runs one callback at a time: preview_allocation, modal
\* dialog included, keeps it until it returns
MainThreadBusy ==
    \E i \in 1..Len(runs) : runs[i].kind = "preview" /\ runs[i].pc # "ended"

\* run_allocation_threaded (lines 281-283): a new daemon thread
run_allocation_threaded ==
    /\ impl = "GUI" /\ Len(runs) < MaxClicks /\ ~MainThreadBusy
    /\ runs' = Append(runs, NewActivation("run"))
    /\ UNCHANGED <<allocVars, prev, allocators>>

\* preview_allocation is called by the main loop (line 134, 242)
preview_allocation ==
    /\ impl = "GUI" /\ Len(runs) < MaxClicks /\ ~MainThreadBusy
    /\ runs' = Append(runs, NewActivation("preview"))
    /\ UNCHANGED <<allocVars, prev, allocators>>

\* one instance kept by the GUI and handed to every activation
MakeAllocator_Cached(as) == 1

\* _make_allocator returns Exam(...), an instance that did not exist before
MakeAllocator(as) == Len(as) + 1

\* allocator = self._make_allocator(Exam) (lines 246, 288); a missing path, a
\* constructor that rejects both signatures or an unreadable file raises
GUIMakeAllocator(i) ==
    /\ runs[i].pc = "make"
    /\ \E ok \in BOOLEAN :
           IF ok
           THEN LET a == MakeAllocator(allocators)
                IN  /\ allocators' = IF a > Len(allocators)
                                     THEN Append(allocators, NewAllocator)
                                     ELSE allocators
                    /\ runs' = [runs EXCEPT ![i].allocator = a,
                                            ![i].pc = "allocate"]
           ELSE /\ runs' = [runs EXCEPT ![i].pc = "showerror"]
                /\ UNCHANGED allocators
    /\ UNCHANGED <<allocVars, prev>>

\* allocator.allocate_seats() is entered (lines 247, 289-290)
GUIAllocateSeats(i) ==
    /\ runs[i].pc = "allocate"
    /\ runs' = [runs EXCEPT ![i].pc = "allocating", ![i].allocate = "entered"]
    /\ allocators' = [allocators EXCEPT
                          ![runs[i].allocator].entered = @ \cup {i},
                          ![runs[i].allocator].state = "allocating"]
    /\ UNCHANGED <<allocVars, prev>>

\* an except clause around allocate_seats that goes on with the exports
AfterAllocateSeats_Swallowed(outcome) == "propagate"

\* where control goes when allocate_seats ends: the next statement, or the
\* except clause of the outer try (lines 276, 374)
AfterAllocateSeats(outcome) ==
    IF outcome = "returned" THEN "propagate" ELSE "showerror"

\* allocate_seats returns or raises
GUIAllocateSeatsEnds(i) ==
    /\ runs[i].pc = "allocating"
    /\ \E outcome \in {"returned", "raised"} :
           /\ runs' = [runs EXCEPT ![i].allocate = outcome,
                                   ![i].pc = AfterAllocateSeats(outcome)]
           /\ allocators' = [allocators EXCEPT ![runs[i].allocator].state =
                                 IF outcome = "returned" THEN "allocated"
                                 ELSE "failed"]
    /\ UNCHANGED <<allocVars, prev>>

\* date and session are written into allocator.allocations, errors ignored
\* (lines 251-273, 294-313)
GUIPropagate(i) ==
    /\ runs[i].pc = "propagate"
    /\ runs' = [runs EXCEPT ![i].pc =
                    IF runs[i].kind = "run" THEN "makedirs" ELSE "print"]
    /\ UNCHANGED <<allocVars, prev, allocators>>

\* os.makedirs(out_dir, exist_ok=True) (lines 315-316)
GUIMakedirs(i) ==
    /\ runs[i].pc = "makedirs"
    /\ \E ok \in BOOLEAN :
           runs' = [runs EXCEPT ![i].pc = IF ok THEN "export_pdf" ELSE "showerror",
                                ![i].attempt = IF ok THEN 1 ELSE 0]
    /\ UNCHANGED <<allocVars, prev, allocators>>

\* how a call of an export method ends
ExportOutcomes == {"returned", "TypeError", "Exception"}

\* the signature cascade of export_pdf_seating_plan (lines 344-355):
\* <<pc, attempt>> after the attempt-th call ended with outcome
AfterExportPdf(attempt, outcome) ==
    IF outcome = "returned" THEN << "export_master", 1 >>
    ELSE IF attempt \in {1, 2}
         THEN IF outcome = "TypeError" THEN << "export_pdf", attempt + 1 >>
              ELSE << "showerror", 0 >>
    ELSE IF attempt = 3 THEN << "export_pdf", 4 >>
    ELSE << "showerror", 0 >>

\* the signature cascade of export_master_seating_plan (lines 358-370)
AfterExportMaster(attempt, outcome) ==
    IF outcome = "returned" THEN << "showinfo", 0 >>
    ELSE IF attempt \in {1, 2}
         THEN IF outcome = "TypeError" THEN << "export_master", attempt + 1 >>
              ELSE << "showerror", 0 >>
    ELSE IF attempt = 3 THEN << "export_master", 4 >>
    ELSE << "showinfo", 0 >>

\* one call of allocator.export_pdf_seating_plan
GUIExportPdf(i) ==
    /\ runs[i].pc = "export_pdf"
    /\ \E outcome \in ExportOutcomes :
           LET n == AfterExportPdf(runs[i].attempt, outcome)
           IN  runs' = [runs EXCEPT ![i].pc = n[1], ![i].attempt = n[2],
                                    ![i].exports = @ + 1]
    /\ allocators' = [allocators EXCEPT ![runs[i].allocator].entered = @ \cup {i}]
    /\ UNCHANGED <<allocVars, prev>>

\* one call of allocator.export_master_seating_plan
GUIExportMaster(i) ==
    /\ runs[i].pc = "export_master"
    /\ \E outcome \in ExportOutcomes :
           LET n == AfterExportMaster(runs[i].attempt, outcome)
           IN  runs' = [runs EXCEPT ![i].pc = n[1], ![i].attempt = n[2],
                                    ![i].exports = @ + 1]
    /\ allocators' = [allocators EXCEPT ![runs[i].allocator].entered = @ \cup {i}]
    /\ UNCHANGED <<allocVars, prev>>

\* allocator.print_seating_plan() of the preview (line 274)
GUIPrintSeatingPlan(i) ==
    /\ runs[i].pc = "print"
    /\ \E ok \in BOOLEAN :
           runs' = [runs EXCEPT ![i].pc = IF ok THEN "showinfo" ELSE "showerror"]
    /\ allocators' = [allocators EXCEPT ![runs[i].allocator].entered = @ \cup {i}]
    /\ UNCHANGED <<allocVars, prev>>

\* messagebox.showinfo (lines 275, 372-373), the last statement
GUIShowInfo(i) ==
    /\ runs[i].pc = "showinfo"
    /\ runs' = [runs EXCEPT ![i].pc = "ended", ![i].dialog = "info"]
    /\ UNCHANGED <<allocVars, prev, allocators>>

\* the except clause: traceback to the log and messagebox.showerror
\* (lines 276-279, 374-377)
GUIShowError(i) ==
    /\ runs[i].pc = "showerror"
    /\ runs' = [runs EXCEPT ![i].pc = "ended", ![i].dialog = "error"]
    /\ UNCHANGED <<allocVars, prev, allocators>>

\* the window as ExamGUI.__init__ leaves it: no click yet
InitGUI == Constructed("GUI", << >>, << >>)

NextGUI ==
    \/ run_allocation_threaded
    \/ preview_allocation
    \/ \E i \in 1..Len(runs) :
           \/ GUIMakeAllocator(i) \/ GUIAllocateSeats(i) \/ GUIAllocateSeatsEnds(i)
           \/ GUIPropagate(i) \/ GUIMakedirs(i)
           \/ GUIExportPdf(i) \/ GUIExportMaster(i) \/ GUIPrintSeatingPlan(i)
           \/ GUIShowInfo(i) \/ GUIShowError(i)

\* any interleaving of the threads started by the clicks
SpecGUI == InitGUI /\ [][NextGUI]_vars

-----------------------------------------------------------------------------
(* Properties *)

HallCodes == 1..Len(halls)

RegNos == { students[i].reg_no : i \in 1..Len(students) }

\* the cells, over all halls, that hold reg
CellsHolding(reg) ==
    UNION { { <<code, rc[1], rc[2]>> : rc \in { x \in Occupied(hall_seats[code]) :
                                                   hall_seats[code][x[1]][x[2]] = reg } } :
            code \in HallCodes }

\* the number of occupied cells, summed over the halls
OccupiedCount == SumSeq([code \in HallCodes |-> Cardinality(Occupied(hall_seats[code]))])

\* no seat, no ledger entry and no hall course has been written
NothingAssigned ==
    /\ allocations = << >>
    /\ \A code \in HallCodes : Occupied(hall_seats[code]) = {} /\ hall_courses[code] = {}

\* allocations[reg] names the cell that holds reg, rows and columns 1-based
LedgerNamesCell(reg) ==
    /\ reg \in DOMAIN allocations
    /\ allocations[reg].hall_code \in HallCodes
    /\ allocations[reg].row - 1 \in DOMAIN hall_seats[allocations[reg].hall_code]
    /\ allocations[reg].col - 1 \in
           DOMAIN hall_seats[allocations[reg].hall_code][allocations[reg].row - 1]
    /\ hall_seats[allocations[reg].hall_code][allocations[reg].row - 1]
                 [allocations[reg].col - 1] = reg

\* every student sits in exactly one cell, which the ledger names, and the
\* occupied cells are as many as the students
EveryStudentSeatedOnce ==
    /\ \A reg \in RegNos : Cardinality(CellsHolding(reg)) = 1 /\ LedgerNamesCell(reg)
    /\ DOMAIN allocations = RegNos
    /\ OccupiedCount = Len(students)

\* the sum over halls of min(total_capacity, rows * cols)
UsableSeats(hs) ==
    SumSeq([i \in 1..Len(hs) |-> Min2(hs[i].total_capacity, GridCap(hs[i]))])

SomeHallOverGrid == \E i \in 1..Len(halls) : halls[i].total_capacity > GridCap(halls[i])

\* the distributor has run: students_per_hall holds the targets
Distributed == impl \in {"Univ", "Copy"} /\ hall_idx >= 1

\* the targets of the selected halls, in their order
Targets == [i \in 1..Len(halls_to_use) |-> students_per_hall[halls_to_use[i].hall_code]]

\* total_students minus the sum of the floor shares
Remainder ==
    Len(students) -
    SumSeq([i \in 1..Len(halls_to_use) |->
               ShareCount(GridCap(halls_to_use[i]), TotalSeats(halls_to_use), Len(students))])

\* C1: when University's allocate_seats returns without raising, every
\* student's reg_no is in exactly one cell over all grids, the occupied cells
\* are as many as the students (no cell shared), and allocations[reg_no]
\* names exactly that cell with 1-based row and col.
C1_SeatedExactlyOnce == (impl = "Univ" /\ pc = "done") => EveryStudentSeatedOnce

C1_Witness ==
    /\ impl = "Univ" /\ pc = "done" /\ Len(students) >= 3
    /\ \A code \in HallCodes : Occupied(hall_seats[code]) # {}
    /\ Len(halls) = 2

\* C2: on every input that validate_inputs accepts, University's
\* allocate_seats returns without raising and the occupied cells summed over
\* the halls are as many as the students.
C2_ValidatedInputsSucceed ==
    (impl = "Univ" /\ validate_inputs(halls, students) = "none" /\ pc \in {"done", "error"})
        => (pc = "done" /\ OccupiedCount = Len(students))

\* C3: with a hall whose total_capacity exceeds rows * cols, allocate_seats
\* goes no further than validate_inputs, raises the hall capacity error, and
\* allocations, every grid and hall_courses are still empty.
C3_OverGridHallRaisesFirst ==
    (impl = "Univ" /\ SomeHallOverGrid) =>
        /\ pc \in {"start", "error"}
        /\ pc = "error" => error = "hall_capacity"
        /\ NothingAssigned

C3_Witness ==
    /\ impl = "Univ" /\ pc = "error" /\ error = "hall_capacity"
    /\ Len(halls) = 2 /\ Len(students) >= 1
    /\ halls[1].total_capacity <= GridCap(halls[1])

\* C4: with more students than the sum over all halls of rows * cols,
\* validate_inputs raises the capacity error and no seat is assigned, for
\* every hall list, the empty one included.
C4_TooManyStudentsRaises ==
    Len(students) > TotalSeats(halls) =>
        /\ pc \in {"start", "error"}
        /\ pc = "error" => error \in CapacityError
        /\ NothingAssigned

C4_Witness ==
    /\ impl = "Exam1" /\ halls = << >> /\ Len(students) >= 1
    /\ pc = "error" /\ error = "not_enough_seats"

\* C5: validate_inputs raises the capacity error whenever the usable seats,
\* the sum over halls of min(total_capacity, rows * cols), are fewer than
\* the students.
C5_UsableSeatsValidated ==
    (impl = "Univ" /\ UsableSeats(halls) < Len(students) /\ pc # "start")
        => (pc = "error" /\ error \in CapacityError)

\* C6: after the floor shares and the single remainder pass, the targets
\* of the selected halls sum to the number of students, and the remainder
\* the pass had to absorb was at most the number of selected halls.
C6_TargetsSumToStudents ==
    Distributed =>
        /\ SumSeq(Targets) = Len(students)
        /\ Remainder \in 0..Len(halls_to_use)

C6_Witness ==
    /\ impl = "Univ" /\ Distributed /\ Len(halls_to_use) = 2 /\ Remainder = 1
    /\ SumSeq(Targets) = Len(students)

\* C7: every selected hall's target is at least 0 and at most
\* min(rows * cols, total_capacity) of the hall.
C7_TargetWithinUsable ==
    (impl = "Univ" /\ Distributed) =>
        \A i \in 1..Len(halls_to_use) :
            /\ 0 <= Targets[i]
            /\ Targets[i] <= Min2(GridCap(halls_to_use[i]), halls_to_use[i].total_capacity)

\* C8: Exam1's allocate_seats raises 'Could not allocate all students' only
\* if at least one student has no seat after both passes.
C8_ErrorOnlyIfUnseated ==
    (impl = "Exam1" /\ pc = "error" /\ error = "unallocated")
        => \E reg \in RegNos : CellsHolding(reg) = {}

\* C9: zero slack succeeds: a validated input with as many students as the
\* halls have cells returns without raising, with every cell occupied.
C9_ZeroSlackSucceeds ==
    (impl = "Univ" /\ validate_inputs(halls, students) = "none"
        /\ Len(students) = TotalSeats(halls) /\ pc \in {"done", "error"})
        => (pc = "done" /\ \A code \in HallCodes :
                Cardinality(Occupied(hall_seats[code])) = GridCap(halls[code]))

\* C10: in the end-to-end scenario none of the three allocate_seats raises;
\* once the loop over the halls is through, and so when the call returns,
\* all 8 students are seated, each in one cell, and the hall_courses of the
\* two halls together hold all 3 course codes.
C10_ScenarioSeatsAll ==
    /\ pc # "error"
    /\ (pc = "done" \/ hall_idx > Len(halls)) =>
           /\ EveryStudentSeatedOnce
           /\ OccupiedCount = 8
           /\ hall_courses[1] \cup hall_courses[2] = {1, 2, 3}

C10_Witness ==
    /\ impl = "Copy" /\ pc = "done" /\ OccupiedCount = 8
    /\ hall_courses[2] = {1, 2, 3}

\* the hall whose iteration of the loop over the halls ran last
LastHall ==
    IF impl = "Univ" THEN halls_to_use[hall_idx - 1] ELSE halls[hall_idx - 1]

\* the hall iteration that ran last is through with its placement
HallPlaced == hall_idx > 1 /\ pc \in {"halls", "done", "error"}

\* the column of the S-pattern for index i of the packing list
SerpentineCol(i, cols) ==
    IF (i \div cols) % 2 = 0 THEN i % cols ELSE cols - 1 - (i % cols)

\* C11: the student at index i of the hall's packing list sits on row
\* i div cols, at column i mod cols on an even row and cols-1-(i mod cols)
\* on an odd row, the ledger names that cell 1-based, and no other cell of
\* the hall is occupied.
C11_SerpentineMapper ==
    (impl \in {"Univ", "Copy"} /\ HallPlaced /\ frame # NoFrame) =>
        LET hall == LastHall
            packed == frame.hall_students
            grid == hall_seats[hall.hall_code]
        IN  /\ \A i \in 0..(Len(packed) - 1) :
                   /\ grid[i \div hall.cols][SerpentineCol(i, hall.cols)]
                          = packed[i + 1].reg_no
                   /\ allocations[packed[i + 1].reg_no].row = (i \div hall.cols) + 1
                   /\ allocations[packed[i + 1].reg_no].col
                          = SerpentineCol(i, hall.cols) + 1
            /\ Cardinality(Occupied(grid)) = Len(packed)

\* a 3 x 4 hall packed with 12 students: s7 sits at the head of row 1, s4 at
\* its end, s8 at the head of row 2
C11_Witness ==
    /\ impl = "Univ" /\ pc = "done"
    /\ halls[1].rows = 3 /\ halls[1].cols = 4
    /\ Len(frame.hall_students) = 12
    /\ hall_seats[1][1][0] = frame.hall_students[8].reg_no
    /\ hall_seats[1][1][3] = frame.hall_students[5].reg_no
    /\ hall_seats[1][2][0] = frame.hall_students[9].reg_no

\* C12: when University's allocate_seats raises, whichever error, the ledger
\* and every grid are as they were on the fresh instance: empty.
C12_NoPartialResults ==
    (impl = "Univ" /\ pc = "error") =>
        /\ allocations = << >>
        /\ \A code \in HallCodes : Occupied(hall_seats[code]) = {}

\* the course codes of the students seated in the grid of hall code
SeatedCourses(code) ==
    { students[i].course_code :
        i \in { j \in 1..Len(students) :
                  \E rc \in Occupied(hall_seats[code]) :
                      hall_seats[code][rc[1]][rc[2]] = students[j].reg_no } }

\* C13: after University's allocate_seats returned, hall_courses[h] of every
\* hall h is exactly the set of course codes of the students seated in
\* hall_seats[h], the empty set for a hall without students.
C13_HallCoursesExact ==
    (impl = "Univ" /\ pc = "done") =>
        \A code \in HallCodes : hall_courses[code] = SeatedCourses(code)

C13_Witness ==
    /\ impl = "Univ" /\ pc = "done" /\ Len(halls) = 2
    /\ hall_courses[1] = {1, 2}
    /\ Cardinality(Occupied(hall_seats[1])) >= 2
    /\ hall_courses[2] = {} /\ Occupied(hall_seats[2]) = {}

\* C14: at the end of Exam1's allocate_seats, first and second pass done,
\* hall_courses[h] of every hall h is exactly the set of course codes of the
\* students seated in hall_seats[h].
C14_Exam1HallCoursesExact ==
    (impl = "Exam1" /\ pc = "done") =>
        \A code \in HallCodes : hall_courses[code] = SeatedCourses(code)

\* the hall selection of University's allocate_seats is through
Selected ==
    /\ impl = "Univ"
    /\ \/ pc \in {"selected", "halls", "packing", "placing", "done"}
       \/ pc = "error" /\ error = "unallocated"

\* the place of halls[i] among the halls sorted by rows * cols descending,
\* halls of equal size in their declared order
CapRank(i) ==
    1 + Cardinality({ j \in 1..Len(halls) :
                        \/ GridCap(halls[j]) > GridCap(halls[i])
                        \/ GridCap(halls[j]) = GridCap(halls[i]) /\ j < i })

\* rows * cols summed over the first k halls of that order
PrefixCap(k) ==
    SumSeq([i \in 1..Len(halls) |-> IF CapRank(i) <= k THEN GridCap(halls[i]) ELSE 0])

\* the length of the shortest prefix, of at least least halls, that reaches
\* the rounded-up requirement; all halls when none does
ShortestPrefix(least) ==
    LET need == RequiredCapacity(Len(students))
        reach == { k \in least..Len(halls) : PrefixCap(k) >= need }
    IN  IF reach = {} THEN Len(halls)
        ELSE CHOOSE k \in reach : \A m \in reach : k <= m

\* the halls of the first k places, in their declared order
PrefixInDeclaredOrder(k) ==
    SelectSeq(halls, LAMBDA h : CapRank(h.hall_code) <= k)

\* C19 as stated: the selected halls are the shortest prefix of the halls
\* sorted by rows * cols descending whose cumulative rows * cols reaches
\* 25 * ceil(students / 25), the empty prefix included, and halls_to_use
\* lists them in declared order.
C19_ShortestPrefixSelected ==
    Selected => halls_to_use = PrefixInDeclaredOrder(ShortestPrefix(0))

\* C19: the selected halls are the shortest prefix of at least one hall (of
\* no hall only when there is none) of the halls sorted by rows * cols
\* descending, stable, whose cumulative rows * cols reaches
\* 25 * ceil(students / 25), all halls when no prefix reaches it, and
\* halls_to_use lists exactly those halls in their declared order.
C19_BlockQuantizedSelection ==
    Selected => halls_to_use = PrefixInDeclaredOrder(ShortestPrefix(1))

\* halls of 10, 1 and 15 cells: the 15 and the 10 are taken, and stand in
\* halls_to_use in declared order, the 10 first
C19_Witness ==
    /\ Selected /\ Len(halls) = 3 /\ Len(students) >= 1
    /\ GridCap(halls[1]) < GridCap(halls[3])
    /\ halls_to_use = << halls[1], halls[3] >>

\* University's allocate_seats is past its hall selection, or stopped in it
PastSelection ==
    /\ impl = "Univ" /\ pc \notin {"start", "validated"}
    /\ error \notin CapacityError

Ended == pc \in {"done", "error"}

\* why a packing loop was left: the usable capacity of the hall is reached,
\* or the pools the loop draws from are empty
ExitReason ==
    \/ Len(frame.hall_students) >= frame.usable
    \/ impl = "Univ" /\ first_half = << >> /\ second_half = << >>
    \/ impl = "Exam1" /\ ~AnyLeft(remaining, frame.current_courses)
    \/ impl = "Copy" /\ \A c \in DOMAIN remaining : remaining[c] = << >>

\* C18: every packing loop that is entered exits, the 2:1:1 and round-robin
\* loops of Exam1, the alternating loop of University and the window loop of
\* the copy, for one of the two reasons above, and allocate_seats ends,
\* returning or raising.
C18_PackingLoopsExit ==
    /\ (pc = "packing") ~> (pc = "placing")
    /\ (pc = "halls") ~> Ended
    /\ [](pc = "placing" => ExitReason)

\* a loop left after several iterations with students still in the pools
C18_Witness ==
    /\ pc = "placing"
    /\ Len(frame.hall_students) >= 2
    /\ Len(frame.hall_students) = frame.usable
    /\ \E c \in DOMAIN remaining : remaining[c] # << >>

\* C16: in run_allocation an export method is called on an allocator only
\* after that allocator's allocate_seats has returned; a run whose
\* allocate_seats raised calls no export and ends in the error dialog.
C16_ExportsOnlyAfterAllocation ==
    \A i \in 1..Len(runs) :
        /\ (runs[i].exports > 0 \/ runs[i].pc \in {"export_pdf", "export_master"})
               => /\ runs[i].kind = "run"
                  /\ runs[i].allocate = "returned"
                  /\ allocators[runs[i].allocator].state = "allocated"
        /\ runs[i].allocate = "raised"
               => /\ runs[i].exports = 0
                  /\ \/ runs[i].pc = "showerror"
                     \/ runs[i].pc = "ended" /\ runs[i].dialog = "error"

\* one run ended in the error dialog after allocate_seats raised, another
\* went through both exports
C16_Witness ==
    /\ \E i \in 1..Len(runs) :
           /\ runs[i].kind = "run" /\ runs[i].allocate = "raised"
           /\ runs[i].pc = "ended"
    /\ \E j \in 1..Len(runs) :
           /\ runs[j].kind = "run" /\ runs[j].exports >= 2
           /\ runs[j].pc = "ended" /\ runs[j].dialog = "info"

\* C17: every activation has an allocator of its own: no instance has
\* allocate_seats, an export or print_seating_plan entered by two
\* activations, and no two activations hold the same instance.
C17_OwnAllocatorPerRun ==
    /\ \A a \in 1..Len(allocators) : Cardinality(allocators[a].entered) <= 1
    /\ \A i, j \in 1..Len(runs) :
           (i # j /\ runs[i].allocator # 0)
               => runs[i].allocator # runs[j].allocator

\* a run thread and another activation inside allocate_seats at the same time
C17_Witness ==
    \E i, j \in 1..Len(runs) :
        /\ i # j
        /\ runs[i].kind = "run" /\ runs[i].pc = "allocating"
        /\ runs[j].pc = "allocating"

\* a queue whose registration keys (_reg_sort_key: digits as a number first,
\* digit-free identifiers after) never decrease
QueueInKeyOrder(q) ==
    \A i, j \in 1..Len(q) :
        i < j => ~SeqLess(RegSortKey(q[j].reg_no), RegSortKey(q[i].reg_no))

\* C21: in Exam1 and in the copy, every per-course queue students are popped
\* from is in ascending order of the numeric registration key ("9" before
\* "10").
C21_QueuesInNumericOrder ==
    impl \in {"Exam1", "Copy"} =>
        \A c \in DOMAIN remaining : QueueInKeyOrder(remaining[c])

\* C22: a second call of University's allocate_seats on the same instance,
\* after a first call that returned, returns too and leaves allocations,
\* hall_seats and hall_courses as the first call left them: every student in
\* exactly one cell, the ledger naming that cell, no entry of another student.
C22_RerunLeavesResult ==
    (impl = "Univ" /\ prev # NoRun) =>
        /\ pc # "error"
        /\ pc = "done" => /\ allocations = prev.allocations
                          /\ hall_seats = prev.hall_seats
                          /\ hall_courses = prev.hall_courses
                          /\ EveryStudentSeatedOnce
                          /\ DOMAIN allocations = RegNos

\* the second call has ended on two halls, with students and free cells
C22_Witness ==
    /\ impl = "Univ" /\ prev # NoRun /\ pc = "done"
    /\ Len(students) >= 3
    /\ Len(halls_to_use) = 2
    /\ \A code \in HallCodes : Occupied(hall_seats[code]) # {}
    /\ OccupiedCount < TotalSeats(halls)

\* the hall the placement loop is at
CopyHallCode == halls[hall_idx].hall_code

\* C23: in a pass over the window of the copy, a course is admitted to the
\* window, and added to hall_courses, only if it has a student without a
\* seat, and the window gets shorter only when no course outside it has a
\* student left.
C23_AdmitsOnlyCoursesWithStudents ==
    [][ (impl = "Copy" /\ pc = "packing") =>
            /\ \A c \in hall_courses'[CopyHallCode] \ hall_courses[CopyHallCode] :
                   remaining[c] # << >>
            /\ Len(frame'.current_courses) < Len(frame.current_courses) =>
                   \A c \in DOMAIN remaining' :
                       c \notin SeqToSet(frame'.current_courses) =>
                           remaining'[c] = << >> ]_vars

\* the step that is the second pass of Exam1
SecondPassStep == impl = "Exam1" /\ pc = "halls" /\ pc' = "second_pass_done"

\* the cells of hall code the step has written
NewCells(code) ==
    { x \in Occupied(hall_seats'[code]) : hall_seats[code][x[1]][x[2]] = None }

\* the position of cell x in the row-major order of hall code
RowMajorIndex(code, x) == x[1] * halls[code].cols + x[2]

\* (course_code, numeric registration key) of the student with number reg
StudentKey2(reg) ==
    RegSortKey2(students[CHOOSE i \in 1..Len(students) : students[i].reg_no = reg])

\* the students without a cell before the step, as registration numbers
Leftover == { reg \in RegNos : CellsHolding(reg) = {} }

\* the registration numbers the step has seated, with hall and cell
NewlySeated ==
    UNION { { << code, x, hall_seats'[code][x[1]][x[2]] >> : x \in NewCells(code) } :
            code \in HallCodes }

\* C24: the second pass of Exam1 overwrites no occupied cell, seats leftover
\* students only, each in the first None cell of its hall in row-major order
\* and in at most one cell, takes the leftover students in (course_code,
\* numeric registration key) order and the halls in declared order, and fills
\* no hall beyond min(total_capacity, rows * cols).
C24_SecondPassFillsFirstFreeCells ==
    [][ SecondPassStep =>
          /\ \A code \in HallCodes : \A x \in Occupied(hall_seats[code]) :
                 hall_seats'[code][x[1]][x[2]] = hall_seats[code][x[1]][x[2]]
          /\ \A n \in NewlySeated :
                 /\ n[3] \in Leftover
                 /\ \A r \in 0..(halls[n[1]].rows - 1), c \in 0..(halls[n[1]].cols - 1) :
                        RowMajorIndex(n[1], <<r, c>>) < RowMajorIndex(n[1], n[2])
                            => hall_seats'[n[1]][r][c] # None
                 /\ \A m \in NewlySeated : m[3] = n[3] => m = n
          /\ \A n, m \in NewlySeated :
                 (n[1] < m[1] \/ (n[1] = m[1] /\ RowMajorIndex(n[1], n[2])
                                                   < RowMajorIndex(m[1], m[2])))
                     => ~SeqLess(StudentKey2(m[3]), StudentKey2(n[3]))
          /\ \A reg \in Leftover : \A n \in NewlySeated :
                 reg \notin { m[3] : m \in NewlySeated }
                     => ~SeqLess(StudentKey2(reg), StudentKey2(n[3]))
          /\ \A n \in NewlySeated : \A code \in HallCodes :
                 code < n[1] =>
                     Cardinality(Occupied(hall_seats'[code]))
                         >= Min2(halls[code].total_capacity, GridCap(halls[code]))
          /\ \A code \in HallCodes :
                 Cardinality(Occupied(hall_seats'[code]))
                     <= Min2(halls[code].total_capacity, GridCap(halls[code]))
      ]_vars

\* the students a hall holds without their course being one of the hall's
\* first-pass courses: the second pass has seated them
SeatedBySecondPass ==
    { reg \in DOMAIN allocations :
          allocations[reg].course_code \notin hall_courses[allocations[reg].hall_code] }

\* the second pass has seated "9" and "10", the two students of the course
\* left over, "9" in the one free seat of the first hall and "10" in the
\* second hall
C24_Witness ==
    /\ impl = "Exam1" /\ pc = "second_pass_done"
    /\ SeatedBySecondPass = { RegOf(1), RegOf(2) }
    /\ allocations[RegOf(1)].course_code = allocations[RegOf(2)].course_code
    /\ allocations[RegOf(1)].hall_code = 1
    /\ allocations[RegOf(2)].hall_code = 2

\* half = (total_students + 1) // 2: the size of the first half
HalfSize == (Len(students) + 1) \div 2

\* the position of a student in self.students
StudentIndex(st) == CHOOSE i \in 1..Len(students) : students[i] = st

IndexOfReg(reg) == CHOOSE i \in 1..Len(students) : students[i].reg_no = reg

InFirstHalf(i) == i <= HalfSize

\* the position of cell <<r, c>> in the S-pattern of a hall with cols columns
SerpentineIndex(r, c, cols) == r * cols + (IF r % 2 = 0 THEN c ELSE cols - 1 - c)

\* whether first_half, or second_half, still held a student when position i
\* of the packing list of the running hall iteration was filled
FirstLeftAt(i) ==
    \/ first_half # << >>
    \/ \E j \in i..Len(frame.hall_students) :
           InFirstHalf(StudentIndex(frame.hall_students[j]))

SecondLeftAt(i) ==
    \/ second_half # << >>
    \/ \E j \in i..Len(frame.hall_students) :
           ~InFirstHalf(StudentIndex(frame.hall_students[j]))

\* reg a is seated before reg b: in an earlier hall, or earlier in the
\* S-pattern of the same hall
SeatedBefore(a, b) ==
    \/ allocations[a].hall_code < allocations[b].hall_code
    \/ /\ allocations[a].hall_code = allocations[b].hall_code
       /\ SerpentineIndex(allocations[a].row - 1, allocations[a].col - 1,
                          halls[allocations[a].hall_code].cols)
            < SerpentineIndex(allocations[b].row - 1, allocations[b].col - 1,
                              halls[allocations[b].hall_code].cols)

\* C25: University splits the students into the first ceil(n/2) and the
\* rest; the packing list of a hall has a first-half student on its odd and
\* a second-half student on its even positions for as long as both halves
\* hold students; each half is seated in input order over all halls; and a
\* hall gets min(rows * cols, total_capacity, target) students unless both
\* halves run out.
C25_HalvesAlternateInOrder ==
    (impl = "Univ" /\ hall_idx >= 1) =>
        /\ first_half = SubSeq(students, HalfSize - Len(first_half) + 1, HalfSize)
        /\ second_half = SubSeq(students, Len(students) - Len(second_half) + 1,
                                Len(students))
        /\ pc \in {"packing", "placing"} =>
               /\ \A i \in 1..Len(frame.hall_students) :
                      (FirstLeftAt(i) /\ SecondLeftAt(i)) =>
                          (InFirstHalf(StudentIndex(frame.hall_students[i])) <=> i % 2 = 1)
               /\ \A i, j \in 1..Len(frame.hall_students) :
                      (i < j /\ InFirstHalf(StudentIndex(frame.hall_students[i]))
                                  = InFirstHalf(StudentIndex(frame.hall_students[j])))
                          => StudentIndex(frame.hall_students[i])
                                 < StudentIndex(frame.hall_students[j])
        /\ \A a, b \in DOMAIN allocations :
               (SeatedBefore(a, b)
                   /\ InFirstHalf(IndexOfReg(a)) = InFirstHalf(IndexOfReg(b)))
                   => IndexOfReg(a) < IndexOfReg(b)
        /\ pc = "placing" =>
               \/ Len(frame.hall_students) =
                      Min2(Min2(GridCap(halls_to_use[hall_idx]),
                                halls_to_use[hall_idx].total_capacity),
                           students_per_hall[halls_to_use[hall_idx].hall_code])
               \/ first_half = << >> /\ second_half = << >>

\* the packing of the second hall is through after the first hall took three
\* students: first half, second half, first half
C25_Witness ==
    /\ impl = "Univ" /\ pc = "placing" /\ hall_idx = 2
    /\ frame.hall_students # << >>
    /\ Cardinality(Occupied(hall_seats[halls_to_use[1].hall_code])) = 3

\* the course whose turn it is at turn idx of the 2:1:1 loop: A, A, B, C
TurnCourse(idx) ==
    IF idx % 4 \in {0, 1} THEN frame.current_courses[1]
    ELSE IF idx % 4 = 2 THEN frame.current_courses[2]
    ELSE frame.current_courses[3]

\* the 2:1:1 loop of a hall with exactly three courses is running
InRatioLoop == impl = "Exam1" /\ pc = "packing" /\ Len(frame.current_courses) = 3

\* course c still had a student in its queue when position i of the packing
\* list was filled
QueueLeftAt(c, i) ==
    \/ remaining[c] # << >>
    \/ \E j \in i..Len(frame.hall_students) : frame.hall_students[j].course_code = c

\* the picks i .. i+3 of the packing list that are students of course c
PicksOf(c, i) ==
    Cardinality({ j \in i..(i + 3) : frame.hall_students[j].course_code = c })

\* C26: with exactly three courses A, B, C in a hall of Exam1, the turns go
\* A, A, B, C, A, A, B, C, ...; a turn takes the head of its course's queue,
\* or nobody when the queue is empty; and any 4 consecutive picks made while
\* all three queues held students are 2 of A, 1 of B and 1 of C.
C26_TwoOneOneTurns ==
    /\ [][ (InRatioLoop /\ pc' = "packing") =>
               /\ frame'.idx = frame.idx + 1
               /\ IF remaining[TurnCourse(frame.idx)] # << >>
                  THEN /\ frame'.hall_students =
                              Append(frame.hall_students,
                                     Head(remaining[TurnCourse(frame.idx)]))
                       /\ remaining' = [remaining EXCEPT
                                            ![TurnCourse(frame.idx)] = Tail(@)]
                  ELSE /\ frame'.hall_students = frame.hall_students
                       /\ remaining' = remaining ]_vars
    /\ []((impl = "Exam1" /\ pc \in {"packing", "placing"}
             /\ Len(frame.current_courses) = 3) =>
            \A i \in 1..(Len(frame.hall_students) - 3) :
                (\A k \in 1..3 : QueueLeftAt(frame.current_courses[k], i + 3)) =>
                    /\ PicksOf(frame.current_courses[1], i) = 2
                    /\ PicksOf(frame.current_courses[2], i) = 1
                    /\ PicksOf(frame.current_courses[3], i) = 1)

\* a hall of three courses packed with A, A, B, C, A and more, a turn of an
\* exhausted course having been skipped
C26_Witness ==
    /\ impl = "Exam1" /\ pc = "placing" /\ Len(frame.current_courses) = 3
    /\ Len(frame.hall_students) >= 5
    /\ frame.idx > Len(frame.hall_students)
    /\ \A k \in 1..3 : QueueLeftAt(frame.current_courses[k], 5)

\* C27: while the first pass of Exam1 runs, the occupied cells of every hall
\* are the first cells of its row-major order, and read in that order their
\* registration keys ((0, int(digits)), or (1, reg) without digits) never
\* decrease.
C27_FirstPassCellsInKeyOrder ==
    (impl = "Exam1" /\ pc = "halls") =>
        \A code \in HallCodes : \A y \in Occupied(hall_seats[code]) :
            \A r \in 0..(halls[code].rows - 1), c \in 0..(halls[code].cols - 1) :
                RowMajorIndex(code, <<r, c>>) < RowMajorIndex(code, y) =>
                    /\ hall_seats[code][r][c] # None
                    /\ ~SeqLess(RegSortKey(hall_seats[code][y[1]][y[2]]),
                                RegSortKey(hall_seats[code][r][c]))

\* a hall holds "2", "9", "10" in this order, drawn as "10", "2", "9"
C27_Witness ==
    /\ impl = "Exam1" /\ pc = "halls"
    /\ \E code \in HallCodes :
           /\ halls[code].cols = 2 /\ halls[code].rows = 2
           /\ hall_seats[code][0][0] = RegOf(3)
           /\ hall_seats[code][0][1] = RegOf(1)
           /\ hall_seats[code][1][0] = RegOf(2)

\* halls with at least one seated student, their base codes, and the seated
\* halls of the same base that come earlier in declared order
SeatedHalls == { code \in HallCodes : Occupied(hall_seats[code]) # {} }

BaseOf(code) == BaseCode(halls[code].code_text)

EarlierOfBase(code) ==
    { d \in SeatedHalls : d < code /\ BaseOf(d) = BaseOf(code) }

\* the seat numbers printed for one hall
SeatNumbers(code) ==
    { frame.seat_no_grid[code][r][c] :
        r \in 0..(halls[code].rows - 1), c \in 0..(halls[code].cols - 1) }

MaxOf(S) == CHOOSE m \in S : \A x \in S : x <= m

\* where the numbers of a hall have to start: at 1, or behind the last number
\* of the seated hall of the same base before it
FirstNumber(code) ==
    IF EarlierOfBase(code) = {} THEN 1
    ELSE MaxOf(SeatNumbers(MaxOf(EarlierOfBase(code)))) + 1

\* the cells of a hall in the order of its seat numbers: serpentine, row 0 left
\* to right in the first hall of a base and right to left in a later one
NumberingCells(code) ==
    LET cells == SerpentineCells(0, halls[code].rows, halls[code].cols)
    IN  IF EarlierOfBase(code) = {} THEN cells
        ELSE [k \in DOMAIN cells |-> << cells[k][1], halls[code].cols - 1 - cells[k][2] >>]

\* the hall's cells are numbered FirstNumber, FirstNumber + 1, ... in the
\* order of NumberingCells
NumberedInOrder(code) ==
    /\ code \in DOMAIN frame.seat_no_grid
    /\ \A k \in 1..GridCap(halls[code]) :
           LET rc == NumberingCells(code)[k]
           IN  frame.seat_no_grid[code][rc[1]][rc[2]] = FirstNumber(code) + k - 1

\* the numbers of the seated halls of one base are 1..n, none of them twice
ConsecutivePerBase(code) ==
    LET same == { d \in SeatedHalls : BaseOf(d) = BaseOf(code) }
        n    == SumSeq([d \in HallCodes |-> IF d \in same THEN GridCap(halls[d]) ELSE 0])
    IN  /\ UNION { SeatNumbers(d) : d \in same } = 1..n
        /\ \A d, e \in same : d # e => SeatNumbers(d) \cap SeatNumbers(e) = {}
        /\ \A d \in same : Cardinality(SeatNumbers(d)) = GridCap(halls[d])

\* the i-th student of the hall's packing order, whom allocate_seats puts on
\* the i-th cell of its S-pattern (lines 187-209), has the hall's i-th number
StudentsOnFirstNumbers(code) ==
    \A i \in 1..Cardinality(Occupied(hall_seats[code])) :
        LET rc == SerpentineCells(0, halls[code].rows, halls[code].cols)[i]
        IN  /\ hall_seats[code][rc[1]][rc[2]] # None
            /\ frame.seat_no_grid[code][rc[1]][rc[2]] = FirstNumber(code) + i - 1

\* The numbering of export_pdf_seating_plan alone: every seated hall is
\* numbered in serpentine order from 1 or from the last number of its base,
\* row 0 right to left when it continues a base, consecutively per base.
SeatNumbersChained ==
    pc = "exported" =>
        \A code \in SeatedHalls : NumberedInOrder(code) /\ ConsecutivePerBase(code)

\* C28: in the report of University's allocator the seated halls of one base
\* code are numbered as one chain (first hall from 1 with row 0 left to right,
\* later halls from the last number + 1 with row 0 right to left, all numbers
\* of a base distinct and consecutive), and the i-th student of a hall's
\* packing order sits on the hall's i-th seat number.
C28_SeatNumbersFollowPacking ==
    pc = "exported" =>
        \A code \in SeatedHalls :
            /\ NumberedInOrder(code)
            /\ ConsecutivePerBase(code)
            /\ StudentsOnFirstNumbers(code)

\* the students of first halls of a base do sit on the hall's first numbers
FirstHallsFollowPacking ==
    pc = "exported" =>
        \A code \in SeatedHalls : EarlierOfBase(code) = {} => StudentsOnFirstNumbers(code)

\* a report with a hall that continues a base
ChainReached ==
    ~(pc = "exported" /\ \E code \in SeatedHalls : EarlierOfBase(code) # {})

\* students_per_hall.get(hall_code, 0): the proportional target of a hall,
\* 0 for a hall that was not selected and before the targets are computed
TargetOf(code) ==
    IF code \in DOMAIN students_per_hall THEN students_per_hall[code] ELSE 0

\* the students a hall holds: the occupied cells of its grid
SeatedIn(code) == Cardinality(Occupied(hall_seats[code]))

\* C29: at every point of University's allocate_seats, every hall holds at
\* most min(total_capacity, rows * cols) students and at most its
\* proportional target, and so does the list that is being packed for the
\* hall of the running iteration.
C29_WithinCapacityAndTarget ==
    impl = "Univ" =>
        /\ \A code \in HallCodes :
               /\ SeatedIn(code) <= Min2(halls[code].total_capacity, GridCap(halls[code]))
               /\ SeatedIn(code) <= TargetOf(code)
        /\ pc \in {"packing", "placing"} =>
               LET hall == halls_to_use[hall_idx]
               IN  /\ Len(frame.hall_students)
                          <= Min2(hall.total_capacity, GridCap(hall))
                   /\ Len(frame.hall_students) <= TargetOf(hall.hall_code)

\* a hall filled up to its total_capacity of 3, below its target and its
\* grid of 4
C29_Witness ==
    /\ impl = "Univ" /\ pc \in {"halls", "done", "error"}
    /\ \E code \in HallCodes :
           /\ SeatedIn(code) = 3 /\ halls[code].total_capacity = 3
           /\ TargetOf(code) > 3

\* a hall that the block selection left out, or whose proportional target is 0
NotUsed(code) ==
    \/ code \notin SelectedCodes(halls, Len(students))
    \/ TargetOf(code) <= 0

\* nothing of the result names the hall
Untouched(code) ==
    /\ \A r \in DOMAIN hall_seats[code] : \A c \in DOMAIN hall_seats[code][r] :
           hall_seats[code][r][c] = None
    /\ hall_courses[code] = {}
    /\ \A reg \in DOMAIN allocations : allocations[reg].hall_code # code

\* C30: University's allocate_seats leaves the halls that were not selected,
\* and the selected halls whose target is 0, as __init__ made them (all cells
\* None, no hall course, no allocations entry), and no step of it changes the
\* students or the halls list.
C30_UnusedHallsAndInputsUntouched ==
    /\ [](impl = "Univ" => \A code \in HallCodes : NotUsed(code) => Untouched(code))
    /\ [][impl = "Univ" => (students' = students /\ halls' = halls)]_vars

\* a run that returned with students seated and a hall left out by the
\* selection
C30_Witness ==
    /\ impl = "Univ" /\ pc = "done" /\ allocations # << >>
    /\ \E code \in HallCodes : code \notin SelectedCodes(halls, Len(students))

====
